---- MODULE Spec2Model ----
(***************************************************************************)
(* ExpenseTracker.  The expense store (DatabaseService): one SQLite table  *)
(* `expenses`, its AUTOINCREMENT counter, the start-up schema repair and   *)
(* the CRUD / search / statistics operations.  The settings                *)
(* (SettingsService): the settings blob, the PIN and the biometric marker. *)
(* The mediator (AppProvider) with the expenses and statistics screens.    *)
(*                                                                         *)
(* Text values are sequences of one-character strings.  An optional value  *)
(* (a nullable column, an optional field of the input) is <<>> when it is  *)
(* absent / NULL and <<v>> when it holds v.  A calendar date 'YYYY-MM-DD'  *)
(* is the triple <<y, m, d>>: the text order of zero-padded ISO dates is   *)
(* the lexicographic order of the triples.                                 *)
(***************************************************************************)
EXTENDS Integers, Sequences, FiniteSets, TLC

VARIABLES
    db,            \* this.db is non-null (the handle of the opened database)
    pc,            \* where the initializeDatabase call in flight stands
    existingData,  \* recreateTableWithCreatedAt: rows read, not yet reinserted
    tableExists,   \* the table `expenses` exists in expenses.db
    columns,       \* its columns, in order: <<name, default>>
    rows,          \* its rows: id -> stored record
    seq,           \* sqlite_sequence entry of `expenses` (0: no entry)
    backup,        \* the table expenses_backup exists (nothing ever reads its rows)
    clock,         \* what datetime('now') / new Date() returns
    last,          \* outcome of the latest call or step
    ensured,       \* history: an initializeDatabase call of this process has returned
    highWater,     \* history: largest id the store has ever handed out
    run,           \* history: what the latest initializeDatabase call started from,
                   \* whether a write of another call overlapped it (quiet) and
                   \* whether the engine failed a statement of its schema repair
    settingsJson,      \* AsyncStorage item 'app_settings'
    user_pin,          \* SecureStore item 'user_pin'
    biometric_enabled, \* SecureStore item 'biometric_enabled' is present
    expenses,          \* AppProvider: the expense list of the mediator
    searchQuery,       \* ExpensesScreen: text of the search box
    filteredExpenses,  \* ExpensesScreen: the list on display
    searching,         \* ExpensesScreen: results of the searches in flight
    reply,             \* AppProvider: the latest call of a screen and how it ended
    isAuthenticated,   \* AppProvider: isAuthenticated
    loading,           \* AppProvider: loading
    starting,          \* AppProvider: where initializeApp stands
    updating           \* SettingsService: the updateSettings calls in flight

settingsVars == <<settingsJson, user_pin, biometric_enabled>>

appVars == <<expenses, searchQuery, filteredExpenses, searching, reply>>

sessionVars == <<isAuthenticated, loading, starting, updating>>

vars == <<db, pc, existingData, tableExists, columns, rows, seq, backup, clock,
          last, ensured, highWater, run, settingsVars, appVars, sessionVars>>

disk == <<tableExists, columns, rows, seq, backup>>

-----------------------------------------------------------------------------
(* Bounds and input domains *)

MaxId == 2

\* significant bits of a floating-point amount
Precision == 14

\* statistics: rows of a small table, months of a long one
MaxStatRows == 3
MaxMonths == 14

\* searches of the expenses screen that may be in flight together
MaxSearching == 2

None == <<>>
Some(v) == <<v>>

\* valid inputs of addExpense / updateExpense (Omit<Expense, 'id' | 'created_at'>)
ExpenseInputs ==
    { [title |-> <<"A", "b">>, amount |-> 8550, category |-> <<"F">>,
       date |-> <<2025, 8, 18>>, description |-> None],
      [title |-> <<"b">>, amount |-> 4500, category |-> <<"T">>,
       date |-> <<2025, 8, 17>>, description |-> Some(<<"a">>)] }

Dates == { e.date : e \in ExpenseInputs }

Queries == { <<>>, <<"a">>, <<"f">>, <<"_">> }

FirstInstant == "2025-08-18 10:00:00"
LaterInstant == "2025-08-19 10:00:00"

Max(a, b) == IF a >= b THEN a ELSE b

-----------------------------------------------------------------------------
(* Schema *)

LegacySchema ==
    << <<"id", "AUTOINCREMENT">>, <<"title", "">>, <<"amount", "">>,
       <<"category", "">>, <<"date", "">>, <<"description", "">> >>

\* the CREATE TABLE statement of initializeDatabase, recreateTableWithCreatedAt
\* and resetDatabase
FullSchema == Append(LegacySchema, <<"created_at", "datetime('now')">>)

ColumnNames(cols) == { cols[i][1] : i \in DOMAIN cols }

CountColumn(cols, name) == Cardinality({ i \in DOMAIN cols : cols[i][1] = name })

\* value a new row gets in created_at when the INSERT does not list it
CreatedAtDefault(cols, now) ==
    IF \E i \in DOMAIN cols : cols[i] = <<"created_at", "datetime('now')">>
    THEN Some(now) ELSE None

\* expense.description || ''
DescriptionOrEmpty(d) == IF d = None \/ d = Some(<<>>) THEN Some(<<>>) ELSE d

\* expense.created_at || new Date().toISOString()
CreatedAtOrNow(c, now) == IF c = None THEN Some(now) ELSE c

StoredRow(e, created) ==
    [title |-> e.title, amount |-> e.amount, category |-> e.category,
     date |-> e.date, description |-> DescriptionOrEmpty(e.description),
     created_at |-> created]

\* a row as a SELECT * returns it
Returned(rs, id) ==
    [id |-> id, title |-> rs[id].title, amount |-> rs[id].amount,
     category |-> rs[id].category, date |-> rs[id].date,
     description |-> rs[id].description, created_at |-> rs[id].created_at]

NoRows == [i \in {} |-> 0]

MaxRowId(rs) == IF DOMAIN rs = {} THEN 0
                ELSE CHOOSE m \in DOMAIN rs : \A i \in DOMAIN rs : i <= m

\* rowid an AUTOINCREMENT table gives to an INSERT that names no id
NextRowId(rs, s) == Max(s, MaxRowId(rs)) + 1

-----------------------------------------------------------------------------
(* Outcome of a call *)

\* op: the call; status: "ok" or what it threw; arg: <<the expense or the query
\* passed>>; id: the id passed or returned; changes: rows the statement changed;
\* ret: the rows (or the one value) returned
Outcome(op, status, arg, id, changes, ret) ==
    [op |-> op, status |-> status, arg |-> arg, id |-> id, changes |-> changes,
     ret |-> ret]

Done(op) == Outcome(op, "ok", <<>>, 0, 0, <<>>)
\* throw new Error('Database not initialized')
NotInitialized(op) == Outcome(op, "Database not initialized", <<>>, 0, 0, <<>>)
\* an error of the storage engine, rethrown by the catch block
Thrown(op) == Outcome(op, "error", <<>>, 0, 0, <<>>)

NoRun == [active |-> FALSE, rows0 |-> NoRows, hadTable |-> FALSE,
          hadCreatedAt |-> FALSE, quiet |-> TRUE, faults |-> FALSE]

-----------------------------------------------------------------------------
(* State after construction: `private db = null`, and on the device either *)
(* no database yet (fresh install) or the table of the release that had no *)
(* created_at column, holding the user's rows.                             *)

LegacyRow(e) ==
    [title |-> e.title, amount |-> e.amount, category |-> e.category,
     date |-> e.date, description |-> e.description, created_at |-> None]

LegacyTables ==
    UNION { [ids -> { LegacyRow(e) : e \in ExpenseInputs }] : ids \in SUBSET (1..MaxId) }

Init ==
    /\ db = FALSE
    /\ pc = "idle"
    /\ existingData = <<>>
    /\ \/ /\ tableExists = FALSE
          /\ columns = <<>>
          /\ rows = NoRows
          /\ seq = 0
       \/ /\ tableExists = TRUE
          /\ columns = LegacySchema
          /\ rows \in LegacyTables
          /\ seq \in MaxRowId(rows)..MaxId
    /\ backup = FALSE
    /\ clock = FirstInstant
    /\ last = Done("constructor")
    /\ ensured = FALSE
    /\ highWater = seq
    /\ run = NoRun
    /\ settingsJson = None
    /\ user_pin = None
    /\ biometric_enabled = FALSE
    /\ expenses = <<>>
    /\ searchQuery = <<>>
    /\ filteredExpenses = <<>>
    /\ searching = <<>>
    /\ reply = [op |-> "none", status |-> "ok"]
    /\ isAuthenticated = FALSE
    /\ loading = TRUE
    /\ starting = "mounted"
    /\ updating = <<>>

-----------------------------------------------------------------------------
(* History bookkeeping *)

\* a run that a write of another call overlapped: what it started from is
\* no longer of interest
Overlapped == [NoRun EXCEPT !.active = TRUE, !.quiet = FALSE]

\* the run record after a statement of the call in flight
Noted(fault) == IF run.quiet THEN [run EXCEPT !.faults = @ \/ fault] ELSE run

\* the run record after another operation: a write that overlaps the call in
\* flight makes the run not quiet; a finished run is forgotten
Overlap(isWrite) ==
    IF ~run.active THEN NoRun
    ELSE IF isWrite THEN Overlapped
    ELSE run

Pending == Outcome("initializeDatabase", "pending", <<>>, 0, 0, <<>>)

\* the statement in flight succeeded and the call goes on at `next`
GoesOn(next, fault) ==
    /\ pc' = next
    /\ last' = Pending
    /\ UNCHANGED ensured
    /\ run' = Noted(fault)

\* initializeDatabase returns (status "ok") or rethrows (status "error")
Returns(status, fault) ==
    /\ pc' = "idle"
    /\ existingData' = <<>>
    /\ last' = Outcome("initializeDatabase", status, <<>>, 0, 0, <<>>)
    /\ ensured' = (ensured \/ status = "ok")
    /\ run' = [Noted(fault) EXCEPT !.active = FALSE]

-----------------------------------------------------------------------------
(* initializeDatabase, one step per awaited statement.  `fault` is the     *)
(* storage engine failing the statement (an I/O error, a full disk).       *)

StartOfRun ==
    [active |-> TRUE, rows0 |-> rows, hadTable |-> tableExists,
     hadCreatedAt |-> tableExists /\ "created_at" \in ColumnNames(columns),
     quiet |-> TRUE, faults |-> FALSE]

\* this.db = await SQLite.openDatabaseAsync('expenses.db')
OpenDatabase(fault) ==
    /\ pc = "idle"
    /\ IF fault
       THEN /\ pc' = "idle"
            /\ last' = Thrown("initializeDatabase")
            /\ run' = [StartOfRun EXCEPT !.active = FALSE]
            /\ UNCHANGED db
       ELSE /\ db' = TRUE
            /\ pc' = "CREATE"
            /\ last' = Pending
            /\ run' = StartOfRun
    /\ UNCHANGED <<existingData, disk, clock, ensured, highWater>>

\* CREATE TABLE IF NOT EXISTS expenses (...)
CreateIfNotExists(fault) ==
    /\ pc = "CREATE"
    /\ IF fault
       THEN /\ Returns("error", FALSE)
            /\ UNCHANGED disk
       ELSE /\ tableExists' = TRUE
            /\ columns' = IF tableExists THEN columns ELSE FullSchema
            /\ GoesOn("PRAGMA", FALSE)
            /\ UNCHANGED <<existingData, rows, seq, backup>>
    /\ UNCHANGED <<db, clock, highWater>>

initializeDatabase(fault) ==
    \/ OpenDatabase(fault)
    \/ CreateIfNotExists(fault)

-----------------------------------------------------------------------------
(* ensureCreatedAtColumn: its try block.  A statement that throws sends    *)
(* the call to the catch block, that is to recreateTableWithCreatedAt.     *)

\* the check of hasCreatedAt left out: the column is added on every start
TableInfoThenAlways(fault) ==
    /\ pc = "PRAGMA"
    /\ IF fault
       THEN GoesOn("SELECT", fault) /\ UNCHANGED existingData
       ELSE GoesOn("ALTER", fault) /\ UNCHANGED existingData
    /\ UNCHANGED <<db, disk, clock, highWater>>

\* PRAGMA table_info(expenses); hasCreatedAt
TableInfo(fault) ==
    /\ pc = "PRAGMA"
    /\ IF fault
       THEN GoesOn("SELECT", fault) /\ UNCHANGED existingData
       ELSE IF "created_at" \in ColumnNames(columns)
            THEN Returns("ok", fault)
            ELSE GoesOn("ALTER", fault) /\ UNCHANGED existingData
    /\ UNCHANGED <<db, disk, clock, highWater>>

\* ALTER TABLE expenses ADD COLUMN created_at DATETIME
AddColumn(fault) ==
    /\ pc = "ALTER"
    /\ IF fault \/ ~tableExists \/ "created_at" \in ColumnNames(columns)
       THEN GoesOn("SELECT", fault) /\ UNCHANGED columns
       ELSE /\ columns' = Append(columns, <<"created_at", "">>)
            /\ GoesOn("UPDATE", fault)
    /\ UNCHANGED <<db, existingData, tableExists, rows, seq, backup, clock, highWater>>

\* UPDATE expenses SET created_at = datetime('now') WHERE created_at IS NULL
Backfill(fault) ==
    /\ pc = "UPDATE"
    /\ IF fault \/ ~tableExists \/ "created_at" \notin ColumnNames(columns)
       THEN GoesOn("SELECT", fault) /\ UNCHANGED <<existingData, rows>>
       ELSE /\ rows' = [i \in DOMAIN rows |->
                          [rows[i] EXCEPT !.created_at = CreatedAtOrNow(@, clock)]]
            /\ Returns("ok", fault)
    /\ UNCHANGED <<db, tableExists, columns, seq, backup, clock, highWater>>

ensureCreatedAtColumn(fault) ==
    \/ TableInfo(fault)
    \/ AddColumn(fault)
    \/ Backfill(fault)

-----------------------------------------------------------------------------
(* recreateTableWithCreatedAt, called from the catch block of              *)
(* ensureCreatedAtColumn inside a try whose catch only logs: a statement   *)
(* that throws here ends initializeDatabase normally.                      *)

RECURSIVE InRowidOrder(_, _)
\* the rows of a table scan, by ascending rowid
InRowidOrder(rs, ids) ==
    IF ids = {} THEN <<>>
    ELSE LET m == CHOOSE i \in ids : \A j \in ids : i <= j
         IN  <<Returned(rs, m)>> \o InRowidOrder(rs, ids \ {m})

\* after CREATE TABLE: `if (existingData.length > 0)` the loop, then the clean-up
AfterCreate(data) == IF Len(data) > 0 THEN "INSERT" ELSE "CLEANUP"

\* const existingData = SELECT * FROM expenses
BackupSelect(fault) ==
    /\ pc = "SELECT"
    /\ IF fault \/ ~tableExists
       THEN Returns("ok", fault)
       ELSE /\ existingData' = InRowidOrder(rows, DOMAIN rows)
            /\ GoesOn("DROP_BACKUP", fault)
    /\ UNCHANGED <<db, disk, clock, highWater>>

\* DROP TABLE IF EXISTS expenses_backup
DropOldBackup(fault) ==
    /\ pc = "DROP_BACKUP"
    /\ IF fault
       THEN Returns("ok", fault) /\ UNCHANGED backup
       ELSE /\ backup' = FALSE
            /\ GoesOn("CREATE_BACKUP", fault)
            /\ UNCHANGED existingData
    /\ UNCHANGED <<db, tableExists, columns, rows, seq, clock, highWater>>

\* CREATE TABLE expenses_backup AS SELECT * FROM expenses
CreateBackup(fault) ==
    /\ pc = "CREATE_BACKUP"
    /\ IF fault \/ ~tableExists \/ backup
       THEN Returns("ok", fault) /\ UNCHANGED backup
       ELSE /\ backup' = TRUE
            /\ GoesOn("DROP", fault)
            /\ UNCHANGED existingData
    /\ UNCHANGED <<db, tableExists, columns, rows, seq, clock, highWater>>

\* DROP TABLE expenses (its sqlite_sequence entry goes with it)
DropTable(fault) ==
    /\ pc = "DROP"
    /\ IF fault \/ ~tableExists
       THEN Returns("ok", fault) /\ UNCHANGED <<tableExists, columns, rows, seq>>
       ELSE /\ tableExists' = FALSE
            /\ columns' = <<>>
            /\ rows' = NoRows
            /\ seq' = 0
            /\ GoesOn("RECREATE", fault)
            /\ UNCHANGED existingData
    /\ UNCHANGED <<db, backup, clock, highWater>>

\* CREATE TABLE expenses (...)
CreateTable(fault) ==
    /\ pc = "RECREATE"
    /\ IF fault \/ tableExists
       THEN Returns("ok", fault) /\ UNCHANGED <<tableExists, columns>>
       ELSE /\ tableExists' = TRUE
            /\ columns' = FullSchema
            /\ GoesOn(AfterCreate(existingData), fault)
            /\ UNCHANGED existingData
    /\ UNCHANGED <<db, rows, seq, backup, clock, highWater>>

\* the row the loop reinserts for a row it read
Restored(expense, now) ==
    [title |-> expense.title, amount |-> expense.amount,
     category |-> expense.category, date |-> expense.date,
     description |-> DescriptionOrEmpty(expense.description),
     created_at |-> CreatedAtOrNow(expense.created_at, now)]

\* INSERT INTO expenses (id, title, ..., created_at) VALUES (?, ..., ?)
Reinsert(fault) ==
    /\ pc = "INSERT"
    /\ LET expense == Head(existingData)
       IN  IF \/ fault
              \/ ~tableExists
              \/ "created_at" \notin ColumnNames(columns)
              \/ expense.id \in DOMAIN rows
           THEN Returns("ok", fault) /\ UNCHANGED <<rows, seq>>
           ELSE /\ rows' = [i \in DOMAIN rows \cup {expense.id} |->
                              IF i = expense.id THEN Restored(expense, clock)
                              ELSE rows[i]]
                /\ seq' = Max(seq, expense.id)
                /\ existingData' = Tail(existingData)
                /\ GoesOn(IF Len(existingData) > 1 THEN "INSERT" ELSE "CLEANUP", fault)
    /\ UNCHANGED <<db, tableExists, columns, backup, clock, highWater>>

\* DROP TABLE IF EXISTS expenses_backup
DropBackup(fault) ==
    /\ pc = "CLEANUP"
    /\ backup' = (fault /\ backup)
    /\ Returns("ok", fault)
    /\ UNCHANGED <<db, tableExists, columns, rows, seq, clock, highWater>>

recreateTableWithCreatedAt(fault) ==
    \/ BackupSelect(fault)
    \/ DropOldBackup(fault)
    \/ CreateBackup(fault)
    \/ DropTable(fault)
    \/ CreateTable(fault)
    \/ Reinsert(fault)
    \/ DropBackup(fault)

-----------------------------------------------------------------------------
(* Queries *)

Ids == 1..MaxId

\* text comparison of two ISO dates: a <= b
DateLeq(a, b) ==
    \/ a[1] < b[1]
    \/ a[1] = b[1] /\ a[2] < b[2]
    \/ a[1] = b[1] /\ a[2] = b[2] /\ a[3] <= b[3]

RECURSIVE ByDateThenIdAscending(_, _)
\* ORDER BY date DESC, id  (rows of one date oldest first)
ByDateThenIdAscending(rs, ids) ==
    IF ids = {} THEN <<>>
    ELSE LET m == CHOOSE i \in ids : \A j \in ids :
                     \/ ~DateLeq(rs[i].date, rs[j].date)
                     \/ rs[i].date = rs[j].date /\ i <= j
         IN  <<Returned(rs, m)>> \o ByDateThenIdAscending(rs, ids \ {m})

RECURSIVE ByDateThenId(_, _)
\* ORDER BY date DESC, id DESC
ByDateThenId(rs, ids) ==
    IF ids = {} THEN <<>>
    ELSE LET m == CHOOSE i \in ids : \A j \in ids :
                     \/ ~DateLeq(rs[i].date, rs[j].date)
                     \/ rs[i].date = rs[j].date /\ i >= j
         IN  <<Returned(rs, m)>> \o ByDateThenId(rs, ids \ {m})

\* ORDER BY date DESC: every order of the rows `ids` in which dates do not
\* increase (the order of rows of one date is not specified by the statement)
ByDate(rs, ids) ==
    LET n == Cardinality(ids)
        orders == { o \in [1..n -> ids] :
                      /\ \A i \in 1..n, j \in 1..n : i # j => o[i] # o[j]
                      /\ \A i \in 1..n, j \in 1..n :
                           i < j => DateLeq(rs[o[j]].date, rs[o[i]].date) }
    IN  { [i \in 1..n |-> Returned(rs, o[i])] : o \in orders }

\* WHERE id = ?, getFirstAsync: <<the row>>, or <<>> for null
ExpenseById(rs, id) == IF id \in DOMAIN rs THEN <<Returned(rs, id)>> ELSE <<>>

\* LIKE folds the case of ASCII letters
Lower(c) ==
    CASE c = "A" -> "a"
      [] c = "B" -> "b"
      [] c = "F" -> "f"
      [] c = "T" -> "t"
      [] OTHER -> c

RECURSIVE Like(_, _)
\* text LIKE pattern: % matches any run of characters, _ any one character
Like(text, pattern) ==
    IF pattern = <<>> THEN text = <<>>
    ELSE IF Head(pattern) = "%"
         THEN \/ Like(text, Tail(pattern))
              \/ text # <<>> /\ Like(Tail(text), pattern)
    ELSE IF text = <<>> THEN FALSE
    ELSE /\ Head(pattern) = "_" \/ Lower(Head(pattern)) = Lower(Head(text))
         /\ Like(Tail(text), Tail(pattern))

\* column LIKE ?  with the parameter `%${query}%`; NULL LIKE ? is not true
ColumnLike(value, query) ==
    value # None /\ Like(value[1], <<"%">> \o query \o <<"%">>)

\* WHERE title LIKE ? OR description LIKE ? OR category LIKE ?
SearchMatches(rs, query) ==
    { i \in DOMAIN rs :
        \/ ColumnLike(Some(rs[i].title), query)
        \/ ColumnLike(rs[i].description, query)
        \/ ColumnLike(Some(rs[i].category), query) }

\* WHERE date BETWEEN ? AND ?
InRange(rs, startDate, endDate) ==
    { i \in DOMAIN rs : DateLeq(startDate, rs[i].date) /\ DateLeq(rs[i].date, endDate) }

-----------------------------------------------------------------------------
(* Aggregates *)

MonthLimit == 12

\* `amount REAL`: a binary floating-point number.  Amounts are counted in
\* units of the smallest amount; a value is representable when it has at
\* most Precision significant bits (53 in SQLite), and an addition rounds
\* its exact result to the nearest representable value, ties to even.
RECURSIVE Ulp(_)
Ulp(x) == IF x < 2 ^ Precision THEN 1 ELSE 2 * Ulp(x \div 2)

RoundToNearest(x) ==
    LET u == Ulp(x)
        lo == (x \div u) * u
    IN  IF 2 * (x - lo) < u THEN lo
        ELSE IF 2 * (x - lo) > u THEN lo + u
        ELSE IF (lo \div u) % 2 = 0 THEN lo ELSE lo + u

FloatAdd(a, b) == RoundToNearest(a + b)

RECURSIVE SumAmount(_, _)
\* SUM(amount) over the rows `ids`, added in rowid order
SumAmount(rs, ids) ==
    IF ids = {} THEN 0
    ELSE LET i == CHOOSE j \in ids : \A k \in ids : k <= j
         IN  FloatAdd(SumAmount(rs, ids \ {i}), rs[i].amount)

\* strftime('%Y-%m', date)
Month(date) == <<date[1], date[2]>>

MonthLeq(a, b) == a[1] < b[1] \/ (a[1] = b[1] /\ a[2] <= b[2])

RECURSIVE MonthsAscending(_, _, _)
\* GROUP BY month ORDER BY month LIMIT n
MonthsAscending(rs, months, n) ==
    IF months = {} \/ n = 0 THEN <<>>
    ELSE LET m == CHOOSE x \in months : \A y \in months : MonthLeq(x, y)
         IN  <<[month |-> m,
                total |-> SumAmount(rs, { i \in DOMAIN rs : Month(rs[i].date) = m })]>>
             \o MonthsAscending(rs, months \ {m}, n - 1)

RECURSIVE MonthsDescending(_, _, _)
\* GROUP BY month ORDER BY month DESC LIMIT n
MonthsDescending(rs, months, n) ==
    IF months = {} \/ n = 0 THEN <<>>
    ELSE LET m == CHOOSE x \in months : \A y \in months : MonthLeq(y, x)
         IN  <<[month |-> m,
                total |-> SumAmount(rs, { i \in DOMAIN rs : Month(rs[i].date) = m })]>>
             \o MonthsDescending(rs, months \ {m}, n - 1)

ExpenseStats(rs) ==
    [totalExpenses |-> SumAmount(rs, DOMAIN rs),
     categorySums |->
        [c \in { rs[i].category : i \in DOMAIN rs } |->
            SumAmount(rs, { i \in DOMAIN rs : rs[i].category = c })],
     monthlyData |->
        MonthsDescending(rs, { Month(rs[i].date) : i \in DOMAIN rs }, MonthLimit)]

-----------------------------------------------------------------------------
(* Operations.  Each starts with `if (!this.db) throw new Error('Database  *)
(* not initialized')`, runs its statement and rethrows what the engine     *)
(* throws.                                                                 *)

Frame == UNCHANGED <<db, pc, existingData, clock, ensured>>

\* outcome of a call that changes nothing on disk
Answer(outcome) ==
    /\ last' = outcome
    /\ run' = Overlap(FALSE)
    /\ UNCHANGED <<disk, highWater>>
    /\ Frame

\* INSERT INTO expenses (title, amount, category, date, description) VALUES (...)
addExpense(expense, fault) ==
    IF ~db THEN Answer(NotInitialized("addExpense"))
    ELSE IF fault \/ ~tableExists THEN Answer(Thrown("addExpense"))
    ELSE LET id == NextRowId(rows, seq)
         IN  /\ id <= MaxId
             /\ rows' = [i \in DOMAIN rows \cup {id} |->
                           IF i = id
                           THEN StoredRow(expense, CreatedAtDefault(columns, clock))
                           ELSE rows[i]]
             /\ seq' = id
             /\ highWater' = Max(highWater, id)
             /\ last' = Outcome("addExpense", "ok", <<expense>>, id, 1, <<>>)
             /\ run' = Overlap(TRUE)
             /\ UNCHANGED <<tableExists, columns, backup>>
             /\ Frame

\* SELECT * FROM expenses ORDER BY date DESC, id DESC
getAllExpenses(fault) ==
    IF ~db THEN Answer(NotInitialized("getAllExpenses"))
    ELSE IF fault \/ ~tableExists THEN Answer(Thrown("getAllExpenses"))
    ELSE Answer(Outcome("getAllExpenses", "ok", <<>>, 0, 0,
                        ByDateThenId(rows, DOMAIN rows)))

\* SELECT * FROM expenses WHERE id = ?  (getFirstAsync: the row or null)
getExpenseById(id, fault) ==
    IF ~db THEN Answer(NotInitialized("getExpenseById"))
    ELSE IF fault \/ ~tableExists THEN Answer(Thrown("getExpenseById"))
    ELSE Answer(Outcome("getExpenseById", "ok", <<>>, id, 0, ExpenseById(rows, id)))

\* INSERT OR REPLACE INTO expenses (id, title, ...): the row is written anew
updateExpenseReplacingRow(id, expense, fault) ==
    IF ~db THEN Answer(NotInitialized("updateExpense"))
    ELSE IF fault \/ ~tableExists THEN Answer(Thrown("updateExpense"))
    ELSE /\ rows' = [i \in DOMAIN rows |->
                       IF i = id THEN StoredRow(expense, CreatedAtDefault(columns, clock))
                       ELSE rows[i]]
         /\ last' = Outcome("updateExpense", "ok", <<expense>>, id,
                            IF id \in DOMAIN rows THEN 1 ELSE 0, <<>>)
         /\ run' = Overlap(TRUE)
         /\ UNCHANGED <<tableExists, columns, seq, backup, highWater>>
         /\ Frame

\* UPDATE expenses SET ... WHERE id <= ?
updateExpenseUpTo(id, expense, fault) ==
    IF ~db THEN Answer(NotInitialized("updateExpense"))
    ELSE IF fault \/ ~tableExists THEN Answer(Thrown("updateExpense"))
    ELSE /\ rows' = [i \in DOMAIN rows |->
                       IF i <= id THEN StoredRow(expense, rows[i].created_at)
                       ELSE rows[i]]
         /\ last' = Outcome("updateExpense", "ok", <<expense>>, id,
                            IF id \in DOMAIN rows THEN 1 ELSE 0, <<>>)
         /\ run' = Overlap(TRUE)
         /\ UNCHANGED <<tableExists, columns, seq, backup, highWater>>
         /\ Frame

\* UPDATE expenses SET title = ?, amount = ?, category = ?, date = ?,
\* description = ? WHERE id = ?
updateExpense(id, expense, fault) ==
    IF ~db THEN Answer(NotInitialized("updateExpense"))
    ELSE IF fault \/ ~tableExists THEN Answer(Thrown("updateExpense"))
    ELSE /\ rows' = [i \in DOMAIN rows |->
                       IF i = id THEN StoredRow(expense, rows[i].created_at)
                       ELSE rows[i]]
         /\ last' = Outcome("updateExpense", "ok", <<expense>>, id,
                            IF id \in DOMAIN rows THEN 1 ELSE 0, <<>>)
         /\ run' = Overlap(TRUE)
         /\ UNCHANGED <<tableExists, columns, seq, backup, highWater>>
         /\ Frame

\* DELETE FROM expenses WHERE id <= ?
deleteExpenseUpTo(id, fault) ==
    IF ~db THEN Answer(NotInitialized("deleteExpense"))
    ELSE IF fault \/ ~tableExists THEN Answer(Thrown("deleteExpense"))
    ELSE /\ rows' = [i \in { j \in DOMAIN rows : j > id } |-> rows[i]]
         /\ last' = Outcome("deleteExpense", "ok", <<>>, id,
                            IF id \in DOMAIN rows THEN 1 ELSE 0, <<>>)
         /\ run' = Overlap(TRUE)
         /\ UNCHANGED <<tableExists, columns, seq, backup, highWater>>
         /\ Frame

\* DELETE FROM expenses WHERE id = ?
deleteExpense(id, fault) ==
    IF ~db THEN Answer(NotInitialized("deleteExpense"))
    ELSE IF fault \/ ~tableExists THEN Answer(Thrown("deleteExpense"))
    ELSE /\ rows' = [i \in DOMAIN rows \ {id} |-> rows[i]]
         /\ last' = Outcome("deleteExpense", "ok", <<>>, id,
                            IF id \in DOMAIN rows THEN 1 ELSE 0, <<>>)
         /\ run' = Overlap(TRUE)
         /\ UNCHANGED <<tableExists, columns, seq, backup, highWater>>
         /\ Frame

\* SELECT * FROM expenses WHERE title LIKE ? OR description LIKE ?
\* OR category LIKE ? ORDER BY date DESC
searchExpenses(query, fault) ==
    IF ~db THEN Answer(NotInitialized("searchExpenses"))
    ELSE IF fault \/ ~tableExists THEN Answer(Thrown("searchExpenses"))
    ELSE \E result \in ByDate(rows, SearchMatches(rows, query)) :
            Answer(Outcome("searchExpenses", "ok", <<query>>, 0, 0, result))

\* the three SELECT SUM(amount) statements; totalResult.total || 0
getExpenseStats(fault) ==
    IF ~db THEN Answer(NotInitialized("getExpenseStats"))
    ELSE IF fault \/ ~tableExists THEN Answer(Thrown("getExpenseStats"))
    ELSE Answer(Outcome("getExpenseStats", "ok", <<>>, 0, 0, <<ExpenseStats(rows)>>))

\* DELETE FROM expenses WHERE id > 1
clearAllDataKeepingFirst(fault) ==
    IF ~db THEN Answer(NotInitialized("clearAllData"))
    ELSE IF fault \/ ~tableExists THEN Answer(Thrown("clearAllData"))
    ELSE /\ rows' = [i \in DOMAIN rows \cap {1} |-> rows[i]]
         /\ last' = Outcome("clearAllData", "ok", <<>>, 0, Cardinality(DOMAIN rows),
                            <<>>)
         /\ run' = Overlap(TRUE)
         /\ UNCHANGED <<tableExists, columns, seq, backup, highWater>>
         /\ Frame

\* DELETE FROM expenses
clearAllData(fault) ==
    IF ~db THEN Answer(NotInitialized("clearAllData"))
    ELSE IF fault \/ ~tableExists THEN Answer(Thrown("clearAllData"))
    ELSE /\ rows' = NoRows
         /\ last' = Outcome("clearAllData", "ok", <<>>, 0, Cardinality(DOMAIN rows),
                            <<>>)
         /\ run' = Overlap(TRUE)
         /\ UNCHANGED <<tableExists, columns, seq, backup, highWater>>
         /\ Frame

\* DROP TABLE IF EXISTS expenses; CREATE TABLE expenses (...).
\* `fault` fails the DROP, `faultCreate` the CREATE after a DROP that worked.
resetDatabase(fault, faultCreate) ==
    IF ~db THEN Answer(NotInitialized("resetDatabase"))
    ELSE IF fault THEN Answer(Thrown("resetDatabase"))
    ELSE /\ rows' = NoRows
         /\ seq' = 0
         /\ tableExists' = ~faultCreate
         /\ columns' = IF faultCreate THEN <<>> ELSE FullSchema
         /\ last' = IF faultCreate THEN Thrown("resetDatabase")
                    ELSE Done("resetDatabase")
         /\ run' = Overlap(TRUE)
         /\ UNCHANGED <<backup, highWater>>
         /\ Frame

\* SELECT * FROM expenses WHERE date BETWEEN ? AND ? ORDER BY date DESC
getExpensesByDateRange(startDate, endDate, fault) ==
    IF ~db THEN Answer(NotInitialized("getExpensesByDateRange"))
    ELSE IF fault \/ ~tableExists THEN Answer(Thrown("getExpensesByDateRange"))
    ELSE \E result \in ByDate(rows, InRange(rows, startDate, endDate)) :
            Answer(Outcome("getExpensesByDateRange", "ok", <<startDate, endDate>>, 0, 0, result))

-----------------------------------------------------------------------------
(* Environment *)

\* time passes
Tick ==
    /\ clock = FirstInstant
    /\ clock' = LaterInstant
    /\ UNCHANGED <<db, pc, existingData, disk, last, ensured, highWater, run>>

\* the process ends and the app is launched again: a new DatabaseService,
\* the same expenses.db
Relaunch ==
    /\ db' = FALSE
    /\ pc' = "idle"
    /\ existingData' = <<>>
    /\ last' = Done("constructor")
    /\ ensured' = FALSE
    /\ run' = NoRun
    /\ UNCHANGED <<disk, clock, highWater>>

-----------------------------------------------------------------------------

\* a call of the API
Call ==
    \/ \E expense \in ExpenseInputs, fault \in BOOLEAN : addExpense(expense, fault)
    \/ \E fault \in BOOLEAN : getAllExpenses(fault)
    \/ \E id \in Ids, fault \in BOOLEAN : getExpenseById(id, fault)
    \/ \E id \in Ids, expense \in ExpenseInputs, fault \in BOOLEAN :
          updateExpense(id, expense, fault)
    \/ \E id \in Ids, fault \in BOOLEAN : deleteExpense(id, fault)
    \/ \E query \in Queries, fault \in BOOLEAN : searchExpenses(query, fault)
    \/ \E fault \in BOOLEAN : getExpenseStats(fault)
    \/ \E fault \in BOOLEAN : clearAllData(fault)
    \/ \E fault \in BOOLEAN, faultCreate \in BOOLEAN : resetDatabase(fault, faultCreate)
    \/ \E startDate \in Dates, endDate \in Dates, fault \in BOOLEAN :
          getExpensesByDateRange(startDate, endDate, fault)

Startup ==
    \/ \E fault \in BOOLEAN : initializeDatabase(fault)
    \/ \E fault \in BOOLEAN : ensureCreatedAtColumn(fault)
    \/ \E fault \in BOOLEAN : recreateTableWithCreatedAt(fault)

\* callers that await each call before they issue the next
Next ==
    /\ \/ Startup
       \/ pc = "idle" /\ Call
       \/ Tick
       \/ Relaunch
    /\ UNCHANGED <<settingsVars, appVars, sessionVars>>

Spec == Init /\ [][Next]_vars

-----------------------------------------------------------------------------
(* Claims *)

\* the fields of the input that the returned record `got` must carry
SameInput(got, expense) ==
    /\ got.title = expense.title
    /\ got.amount = expense.amount
    /\ got.category = expense.category
    /\ got.date = expense.date
    /\ got.description = expense.description

\* C1: addExpense followed by getExpenseById on the returned id yields a record
\* whose title, amount, category, date and description equal the input, with a
\* non-null id and a non-null created_at.  Stated for the inputs that carry a
\* description and for a table that has the created_at column (an input
\* without description comes back with description '', and a table left
\* without the column has no created_at to return).
C1_AddThenGetById ==
    (/\ last.op = "addExpense"
     /\ last.status = "ok"
     /\ last.arg[1].description # None
     /\ "created_at" \in ColumnNames(columns)) =>
        LET got == ExpenseById(rows, last.id)
        IN  /\ got # <<>>
            /\ got[1].id = last.id
            /\ got[1].id \in Ids
            /\ SameInput(got[1], last.arg[1])
            /\ got[1].created_at # None

\* a call gets through to its statement and the engine serves it
Served == db /\ tableExists

\* C2: getAllExpenses returns every stored record exactly once, sorted by date
\* descending with ties broken by id descending.
C2_GetAllSorted ==
    (last.op = "getAllExpenses" /\ last.status = "ok") =>
        LET got == last.ret
            n == Len(got)
        IN  /\ n = Cardinality(DOMAIN rows)
            /\ \A id \in DOMAIN rows : \E i \in 1..n : got[i] = Returned(rows, id)
            /\ \A i \in 1..n, j \in 1..n : i # j => got[i].id # got[j].id
            /\ \A i \in 1..n, j \in 1..n : i < j =>
                  \/ got[i].date # got[j].date /\ DateLeq(got[j].date, got[i].date)
                  \/ got[i].date = got[j].date /\ got[i].id > got[j].id

\* two records of one date are returned
C2_Witness ==
    /\ last.op = "getAllExpenses"
    /\ last.status = "ok"
    /\ Len(last.ret) = 2
    /\ last.ret[1].date = last.ret[2].date

\* C3 as claimed: for an existing id, updateExpense(id, X) followed by
\* getExpenseById(id) returns a record whose mutable fields equal X and whose
\* id and created_at are the same as before the update.
C3_UpdateThenGetById ==
    [][\A id \in Ids, expense \in ExpenseInputs :
          (Served /\ id \in DOMAIN rows /\ updateExpense(id, expense, FALSE)) =>
              LET got == ExpenseById(rows', id)
              IN  /\ got # <<>>
                  /\ got[1].id = id
                  /\ SameInput(got[1], expense)
                  /\ got[1].created_at = rows[id].created_at]_vars

\* C3 amended: as claimed, except that the description returned is the empty
\* text when X carries no description.
C3_UpdateThenGetByIdAmended ==
    [][\A id \in Ids, expense \in ExpenseInputs :
          (Served /\ id \in DOMAIN rows /\ updateExpense(id, expense, FALSE)) =>
              LET got == ExpenseById(rows', id)
              IN  /\ got # <<>>
                  /\ got[1].id = id
                  /\ got[1].title = expense.title
                  /\ got[1].amount = expense.amount
                  /\ got[1].category = expense.category
                  /\ got[1].date = expense.date
                  /\ got[1].description =
                        IF expense.description = None THEN Some(<<>>)
                        ELSE expense.description
                  /\ got[1].created_at = rows[id].created_at]_vars

\* an existing record that has a created_at was updated, at a later instant,
\* with an input that carries no description
C3_Witness ==
    /\ last.op = "updateExpense"
    /\ last.status = "ok"
    /\ last.changes = 1
    /\ last.arg[1].description = None
    /\ rows[last.id].created_at = Some(FirstInstant)
    /\ clock = LaterInstant

\* C4: deleteExpense(id) removes exactly the record with that id: afterwards
\* getExpenseById(id) returns null, every other record is unchanged, and the
\* call completes without error when no record has that id.
C4_DeleteExactlyOne ==
    [][\A id \in Ids :
          (Served /\ deleteExpense(id, FALSE)) =>
              /\ last'.status = "ok"
              /\ ExpenseById(rows', id) = <<>>
              /\ DOMAIN rows' = DOMAIN rows \ {id}
              /\ \A other \in DOMAIN rows \ {id} : rows'[other] = rows[other]]_vars

\* a record was deleted and another one is still there
C4_Witness ==
    /\ last.op = "deleteExpense"
    /\ last.status = "ok"
    /\ last.changes = 1
    /\ DOMAIN rows # {}
    /\ last.id \notin DOMAIN rows

\* C5: the id returned by each addExpense is strictly greater than every id
\* the store has assigned before, also after deletes, clear-all, reset and
\* schema repair (stated for a store whose initializeDatabase has returned).
C5_IdsNeverReused ==
    [][\A expense \in ExpenseInputs :
          (ensured /\ Served /\ addExpense(expense, FALSE)) =>
              last'.id > highWater]_vars

\* initializeDatabase has just returned from a run that found the table
\* without created_at and that no other call wrote into
RepairedLegacyTable ==
    /\ last.op = "initializeDatabase"
    /\ last.status = "ok"
    /\ run.hadTable
    /\ ~run.hadCreatedAt
    /\ run.quiet

\* C6: when ensure-schema runs on a table that lacks created_at, whichever
\* repair path is taken, no expense record is lost: after initialization
\* returns, the table holds the same set of rows with their original id, title,
\* amount, category and date.  (The claim's last part, a non-null created_at
\* in every row, is not included here.)
C6_RepairKeepsRecords ==
    RepairedLegacyTable =>
        /\ tableExists
        /\ DOMAIN rows = DOMAIN run.rows0
        /\ \A id \in DOMAIN run.rows0 :
              /\ rows[id].title = run.rows0[id].title
              /\ rows[id].amount = run.rows0[id].amount
              /\ rows[id].category = run.rows0[id].category
              /\ rows[id].date = run.rows0[id].date

\* C7: a failure in schema repair is never propagated out of
\* initializeDatabase: the call returns normally and the store is usable for
\* the operations that follow (the handle is set and the table is there).
C7_RepairFailureLeavesStoreUsable ==
    (/\ last.op = "initializeDatabase"
     /\ last.status # "pending"
     /\ run.quiet
     /\ run.faults) =>
        /\ last.status = "ok"
        /\ db
        /\ tableExists

\* C8: any operation invoked before schema ensure has completed, also while
\* initializeDatabase is in progress, fails with 'Database not initialized'
\* and leaves the stored records unchanged.
C8_UninitializedCallsFail ==
    [][(~ensured /\ Call) =>
          /\ last'.status = "Database not initialized"
          /\ rows' = rows
          /\ UNCHANGED <<tableExists, columns, seq>>]_vars

\* C9: running initializeDatabase on an already-correct table changes nothing:
\* the column set still contains created_at exactly once and the rows are
\* those before the run.  Stated for a run in which the engine fails no
\* statement.
C9_EnsureSchemaIdempotent ==
    (/\ last.op = "initializeDatabase"
     /\ last.status = "ok"
     /\ run.hadCreatedAt
     /\ run.quiet
     /\ ~run.faults) =>
        /\ tableExists
        /\ CountColumn(columns, "created_at") = 1
        /\ rows = run.rows0

\* a run on a correct table that holds a row without created_at and a row
\* without description (what a reconstruction would rewrite)
C9_Witness ==
    /\ last.op = "initializeDatabase"
    /\ last.status = "ok"
    /\ run.hadCreatedAt
    /\ ~run.faults
    /\ \E id \in DOMAIN rows : rows[id].created_at = None
    /\ \E id \in DOMAIN rows : rows[id].description = None

\* text contains query as a substring, letters compared without case
ContainsIgnoringCase(text, query) ==
    \E k \in 0..(Len(text) - Len(query)) :
        \A i \in 1..Len(query) : Lower(text[k + i]) = Lower(query[i])

\* C10: searchExpenses(q) returns exactly the stored records whose title,
\* description or category contains q as a substring, compared
\* case-insensitively, ordered by date descending (stated for a store whose
\* initializeDatabase has returned).
C10_SearchIsSubstringMatch ==
    (ensured /\ last.op = "searchExpenses" /\ last.status = "ok") =>
        LET got == last.ret
            n == Len(got)
            query == last.arg[1]
            expected ==
                { id \in DOMAIN rows :
                    \/ ContainsIgnoringCase(rows[id].title, query)
                    \/ /\ rows[id].description # None
                       /\ ContainsIgnoringCase(rows[id].description[1], query)
                    \/ ContainsIgnoringCase(rows[id].category, query) }
        IN  /\ { got[i].id : i \in 1..n } = expected
            /\ n = Cardinality(expected)
            /\ \A i \in 1..n : got[i] = Returned(rows, got[i].id)
            /\ \A i \in 1..n, j \in 1..n : i < j => DateLeq(got[j].date, got[i].date)

-----------------------------------------------------------------------------
(* Callers that do not await: a call may be issued while initializeDatabase *)
(* is waiting for a statement.                                              *)

NextOverlap ==
    /\ \/ Startup
       \/ Call
    /\ UNCHANGED <<settingsVars, appVars, sessionVars>>

SpecOverlap == Init /\ [][NextOverlap]_vars

-----------------------------------------------------------------------------
(* Settings (SettingsService).  The settings blob is the JSON text of an   *)
(* object: a function from the names of the fields it holds to their       *)
(* values.  JSON.stringify / JSON.parse keep such an object as it is.      *)

SettingsFields ==
    {"currency", "defaultCategory", "theme", "biometricEnabled", "pinEnabled"}

defaultSettings ==
    [currency |-> "USD", defaultCategory |-> "Other", theme |-> "light",
     biometricEnabled |-> FALSE, pinEnabled |-> FALSE]

\* { ...a, ...b }
Spread(a, b) ==
    [f \in DOMAIN a \cup DOMAIN b |-> IF f \in DOMAIN b THEN b[f] ELSE a[f]]

\* the arguments of updateSettings (Partial<AppSettings>)
SettingsUpdates ==
    { [theme |-> "dark"], [theme |-> "light"], [currency |-> "EUR"],
      [currency |-> "USD", defaultCategory |-> "Food"] }

\* blobs an earlier release may have left: some of the fields only
PartialBlobs ==
    { [theme |-> "dark"], [currency |-> "EUR", pinEnabled |-> FALSE] }

Pins == { "1234", "0000" }

\* getSettings that returns the parsed blob as it is
SettingsOfBlobOnly(json, fault) ==
    IF fault \/ json = None THEN defaultSettings ELSE json[1]

\* what getSettings returns when AsyncStorage holds `json`; `fault`: getItem
\* (or JSON.parse) throws
SettingsOf(json, fault) ==
    IF fault THEN defaultSettings
    ELSE IF json = None THEN defaultSettings
    ELSE Spread(defaultSettings, json[1])

StoreFrame == UNCHANGED <<db, pc, existingData, disk, clock, ensured, highWater, run>>

\* a call of SettingsService: its outcome and what it leaves in the two stores
Settled(outcome, json, pin, marker) ==
    /\ last' = outcome
    /\ settingsJson' = json
    /\ user_pin' = pin
    /\ biometric_enabled' = marker
    /\ StoreFrame
    /\ UNCHANGED <<appVars, sessionVars>>

getSettings(fault) ==
    Settled(Outcome("getSettings", "ok", <<>>, 0, 0, <<SettingsOf(settingsJson, fault)>>),
            settingsJson, user_pin, biometric_enabled)

\* { ...currentSettings, ...newSettings }
UpdatedSettings(newSettings, faultRead) ==
    Spread(SettingsOf(settingsJson, faultRead), newSettings)

\* updateSettings that logs a failed write and returns
updateSettingsSwallowing(newSettings, faultRead, faultWrite) ==
    IF faultWrite
    THEN Settled(Outcome("updateSettings", "ok", <<newSettings>>, 0, 0, <<>>),
                 settingsJson, user_pin, biometric_enabled)
    ELSE Settled(Outcome("updateSettings", "ok", <<newSettings>>, 0, 0, <<>>),
                 Some(UpdatedSettings(newSettings, faultRead)), user_pin,
                 biometric_enabled)

\* faultRead fails the getItem of getSettings, faultWrite the setItem
updateSettings(newSettings, faultRead, faultWrite) ==
    IF faultWrite
    THEN Settled(Outcome("updateSettings", "error", <<newSettings>>, 0, 0, <<>>),
                 settingsJson, user_pin, biometric_enabled)
    ELSE Settled(Outcome("updateSettings", "ok", <<newSettings>>, 0, 0, <<>>),
                 Some(UpdatedSettings(newSettings, faultRead)), user_pin,
                 biometric_enabled)

\* setBiometricEnabled that only ever sets the marker
setBiometricEnabledNeverCleared(enabled, faultRead, faultWrite, faultSecure) ==
    LET updated == Some(UpdatedSettings([biometricEnabled |-> enabled], faultRead))
    IN  IF faultWrite
        THEN Settled(Outcome("setBiometricEnabled", "error", <<enabled>>, 0, 0, <<>>),
                     settingsJson, user_pin, biometric_enabled)
        ELSE IF faultSecure
        THEN Settled(Outcome("setBiometricEnabled", "error", <<enabled>>, 0, 0, <<>>),
                     updated, user_pin, biometric_enabled)
        ELSE Settled(Outcome("setBiometricEnabled", "ok", <<enabled>>, 0, 0, <<>>),
                     updated, user_pin, biometric_enabled \/ enabled)

\* faultSecure fails the deleteItemAsync / setItemAsync of the marker
setBiometricEnabled(enabled, faultRead, faultWrite, faultSecure) ==
    LET updated == Some(UpdatedSettings([biometricEnabled |-> enabled], faultRead))
    IN  IF faultWrite
        THEN Settled(Outcome("setBiometricEnabled", "error", <<enabled>>, 0, 0, <<>>),
                     settingsJson, user_pin, biometric_enabled)
        ELSE IF faultSecure
        THEN Settled(Outcome("setBiometricEnabled", "error", <<enabled>>, 0, 0, <<>>),
                     updated, user_pin, biometric_enabled)
        ELSE Settled(Outcome("setBiometricEnabled", "ok", <<enabled>>, 0, 0, <<>>),
                     updated, user_pin, enabled)

\* deleteItemAsync(PIN_KEY); a failure is logged and not rethrown
PinAfterClear(pin, fault) == IF fault THEN pin ELSE None

clearPin(fault) ==
    Settled(Outcome("clearPin", "ok", <<>>, 0, 0, <<>>),
            settingsJson, PinAfterClear(user_pin, fault), biometric_enabled)

\* setPinEnabled that leaves the PIN where it is
setPinEnabledKeepingPin(enabled, faultRead, faultWrite, faultSecure) ==
    IF faultWrite
    THEN Settled(Outcome("setPinEnabled", "error", <<enabled>>, 0, 0, <<>>),
                 settingsJson, user_pin, biometric_enabled)
    ELSE Settled(Outcome("setPinEnabled", "ok", <<enabled>>, 0, 0, <<>>),
                 Some(UpdatedSettings([pinEnabled |-> enabled], faultRead)),
                 user_pin, biometric_enabled)

\* updateSettings({ pinEnabled: enabled }); if (!enabled) clearPin()
setPinEnabled(enabled, faultRead, faultWrite, faultSecure) ==
    IF faultWrite
    THEN Settled(Outcome("setPinEnabled", "error", <<enabled>>, 0, 0, <<>>),
                 settingsJson, user_pin, biometric_enabled)
    ELSE Settled(Outcome("setPinEnabled", "ok", <<enabled>>, 0, 0, <<>>),
                 Some(UpdatedSettings([pinEnabled |-> enabled], faultRead)),
                 IF enabled THEN user_pin ELSE PinAfterClear(user_pin, faultSecure),
                 biometric_enabled)

\* setItemAsync(PIN_KEY, pin); setPinEnabled(true)
setPin(pin, faultSecure, faultRead, faultWrite) ==
    IF faultSecure
    THEN Settled(Outcome("setPin", "error", <<pin>>, 0, 0, <<>>),
                 settingsJson, user_pin, biometric_enabled)
    ELSE IF faultWrite
    THEN Settled(Outcome("setPin", "error", <<pin>>, 0, 0, <<>>),
                 settingsJson, Some(pin), biometric_enabled)
    ELSE Settled(Outcome("setPin", "ok", <<pin>>, 0, 0, <<>>),
                 Some(UpdatedSettings([pinEnabled |-> TRUE], faultRead)),
                 Some(pin), biometric_enabled)

\* verifyPin that accepts any input once a PIN is stored
verifyPinAnyStored(pin, fault) ==
    Settled(Outcome("verifyPin", "ok", <<pin>>, 0, 0, <<~fault /\ user_pin # None>>),
            settingsJson, user_pin, biometric_enabled)

\* storedPin === pin; a failure of getItemAsync gives false
verifyPin(pin, fault) ==
    Settled(Outcome("verifyPin", "ok", <<pin>>, 0, 0,
                    <<~fault /\ user_pin = Some(pin)>>),
            settingsJson, user_pin, biometric_enabled)

\* pin !== null; a failure of getItemAsync gives false
hasPin(fault) ==
    Settled(Outcome("hasPin", "ok", <<>>, 0, 0, <<~fault /\ user_pin # None>>),
            settingsJson, user_pin, biometric_enabled)

\* removeItem(SETTINGS_KEY); clearPin(); deleteItemAsync('biometric_enabled')
clearAllSettings(faultRemove, faultPin, faultSecure) ==
    IF faultRemove
    THEN Settled(Outcome("clearAllSettings", "error", <<>>, 0, 0, <<>>),
                 settingsJson, user_pin, biometric_enabled)
    ELSE IF faultSecure
    THEN Settled(Outcome("clearAllSettings", "error", <<>>, 0, 0, <<>>),
                 None, PinAfterClear(user_pin, faultPin), biometric_enabled)
    ELSE Settled(Outcome("clearAllSettings", "ok", <<>>, 0, 0, <<>>),
                 None, PinAfterClear(user_pin, faultPin), FALSE)

\* the stores as the process finds them: no blob, or the blob of an earlier
\* release
InitSettings ==
    /\ db = FALSE
    /\ pc = "idle"
    /\ existingData = <<>>
    /\ tableExists = FALSE
    /\ columns = <<>>
    /\ rows = NoRows
    /\ seq = 0
    /\ backup = FALSE
    /\ clock = FirstInstant
    /\ last = Done("constructor")
    /\ ensured = FALSE
    /\ highWater = 0
    /\ run = NoRun
    /\ settingsJson \in {None} \cup { Some(b) : b \in PartialBlobs }
    /\ user_pin = None
    /\ biometric_enabled = FALSE
    /\ expenses = <<>>
    /\ searchQuery = <<>>
    /\ filteredExpenses = <<>>
    /\ searching = <<>>
    /\ reply = [op |-> "none", status |-> "ok"]
    /\ isAuthenticated = FALSE
    /\ loading = TRUE
    /\ starting = "mounted"
    /\ updating = <<>>

\* callers that await each call of SettingsService
NextSettings ==
    \/ \E fault \in BOOLEAN : getSettings(fault)
    \/ \E newSettings \in SettingsUpdates, faultRead \in BOOLEAN, faultWrite \in BOOLEAN :
          updateSettings(newSettings, faultRead, faultWrite)
    \/ \E enabled \in BOOLEAN, faultRead \in BOOLEAN, faultWrite \in BOOLEAN,
          faultSecure \in BOOLEAN :
          setBiometricEnabled(enabled, faultRead, faultWrite, faultSecure)
    \/ \E enabled \in BOOLEAN, faultRead \in BOOLEAN, faultWrite \in BOOLEAN,
          faultSecure \in BOOLEAN :
          setPinEnabled(enabled, faultRead, faultWrite, faultSecure)
    \/ \E pin \in Pins, faultSecure \in BOOLEAN, faultRead \in BOOLEAN,
          faultWrite \in BOOLEAN :
          setPin(pin, faultSecure, faultRead, faultWrite)
    \/ \E pin \in Pins, fault \in BOOLEAN : verifyPin(pin, fault)
    \/ \E fault \in BOOLEAN : hasPin(fault)
    \/ \E fault \in BOOLEAN : clearPin(fault)
    \/ \E faultRemove \in BOOLEAN, faultPin \in BOOLEAN, faultSecure \in BOOLEAN :
          clearAllSettings(faultRemove, faultPin, faultSecure)

SpecSettings == InitSettings /\ [][NextSettings]_vars

-----------------------------------------------------------------------------
(* Claims about the settings *)

\* C14: every getSettings call returns an object in which each of the five
\* fields has a value; when the blob is read, a field the blob holds has the
\* stored value and a field it lacks has the default, and with no blob the
\* result is exactly the default object.
C14_GetSettingsFullyPopulated ==
    [][\A fault \in BOOLEAN :
          getSettings(fault) =>
            LET got == last'.ret[1]
            IN  /\ last'.status = "ok"
                /\ DOMAIN got = SettingsFields
                /\ got.currency \in {"USD", "EUR"}
                /\ got.defaultCategory \in {"Other", "Food"}
                /\ got.theme \in {"light", "dark"}
                /\ got.biometricEnabled \in BOOLEAN
                /\ got.pinEnabled \in BOOLEAN
                /\ (settingsJson = None) => got = defaultSettings
                /\ (~fault /\ settingsJson # None) =>
                      \A f \in SettingsFields :
                         got[f] = IF f \in DOMAIN settingsJson[1]
                                  THEN settingsJson[1][f] ELSE defaultSettings[f]]_vars

\* a blob that holds some of the fields only has been read
C14_Witness ==
    /\ last.op = "getSettings"
    /\ settingsJson # None
    /\ DOMAIN settingsJson[1] # SettingsFields
    /\ last.ret[1].theme = "dark"
    /\ last.ret[1].currency = "USD"

\* C15: an updateSettings(P) that returns normally leaves settings that are
\* the previous settings with the fields named in P replaced and every other
\* field as it was before the call.
C15_UpdateKeepsOtherFields ==
    [][\A newSettings \in SettingsUpdates, faultRead \in BOOLEAN :
          updateSettings(newSettings, faultRead, FALSE) =>
            SettingsOf(settingsJson', FALSE) =
               Spread(SettingsOf(settingsJson, FALSE), newSettings)]_vars

\* C16: when reading the blob fails getSettings returns the default object
\* and does not raise; when persisting fails updateSettings raises and the
\* persisted settings are what they were.
C16_SettingsFailures ==
    [][/\ getSettings(TRUE) =>
             last'.status = "ok" /\ last'.ret = <<defaultSettings>>
       /\ \A newSettings \in SettingsUpdates, faultRead \in BOOLEAN :
             updateSettings(newSettings, faultRead, TRUE) =>
                last'.status = "error" /\ settingsJson' = settingsJson]_vars

\* a write that failed while settings other than the defaults were persisted
C16_Witness ==
    /\ last.op = "updateSettings"
    /\ last.status = "error"
    /\ settingsJson # None
    /\ SettingsOf(settingsJson, FALSE) # defaultSettings

\* C19: verifyPin(p) returns true exactly when a PIN is stored and equals p,
\* and hasPin returns true exactly when a PIN is stored.
C19_VerifyPinExact ==
    [][/\ \A pin \in Pins, fault \in BOOLEAN :
             verifyPin(pin, fault) => last'.ret = <<user_pin = Some(pin)>>
       /\ \A fault \in BOOLEAN :
             hasPin(fault) => last'.ret = <<user_pin # None>>]_vars

\* C19 as amended: when the protected store can be read, verifyPin(p) returns
\* true exactly when a PIN is stored and equals p and hasPin returns true
\* exactly when a PIN is stored; when reading it fails both return false.
C19_VerifyPinExactWhenReadable ==
    [][/\ \A pin \in Pins :
             /\ verifyPin(pin, FALSE) => last'.ret = <<user_pin = Some(pin)>>
             /\ verifyPin(pin, TRUE) => last'.ret = <<FALSE>>
       /\ hasPin(FALSE) => last'.ret = <<user_pin # None>>
       /\ hasPin(TRUE) => last'.ret = <<FALSE>>
       /\ \A pin \in Pins, fault \in BOOLEAN :
             verifyPin(pin, fault) \/ hasPin(fault) =>
                last'.status = "ok" /\ UNCHANGED settingsVars]_vars

\* the stored PIN has been verified
C19_Witness ==
    /\ last.op = "verifyPin"
    /\ last.ret = <<TRUE>>
    /\ user_pin = Some(last.arg[1])

\* C20: after a setBiometricEnabled(e) that returns normally the marker in
\* the protected store is present exactly when e is true, and the
\* biometricEnabled field of the settings equals e.
C20_BiometricMarkerFollowsFlag ==
    [][\A enabled \in BOOLEAN, faultRead \in BOOLEAN, faultWrite \in BOOLEAN,
          faultSecure \in BOOLEAN :
          (/\ setBiometricEnabled(enabled, faultRead, faultWrite, faultSecure)
           /\ last'.status = "ok") =>
             /\ biometric_enabled' = enabled
             /\ SettingsOf(settingsJson', FALSE).biometricEnabled = enabled]_vars

\* biometrics have been switched off after they had been on
C20_Witness ==
    /\ last.op = "setBiometricEnabled"
    /\ last.status = "ok"
    /\ last.arg = <<FALSE>>
    /\ ~biometric_enabled
    /\ SettingsOf(settingsJson, FALSE).biometricEnabled = FALSE
    /\ user_pin # None

-----------------------------------------------------------------------------
(* Statistics over any record set: getExpenseStats applied to the tables   *)
(* of StatTables.                                                          *)

StatAmounts == { 1, 3, 2 ^ Precision + 2 }

StatRecords ==
    { [title |-> <<"b">>, amount |-> a, category |-> c, date |-> d,
       description |-> Some(<<>>), created_at |-> Some(FirstInstant)] :
         a \in StatAmounts, c \in { <<"F">>, <<"T">> },
         d \in { <<2025, 7, 30>>, <<2025, 8, 1>> } }

\* the date of row i of a long table: one month per row, from July 2024 on,
\* neighbouring rows swapped so that rowid order is not date order
DateOfRow(i) ==
    LET k == IF i % 2 = 1 THEN i + 1 ELSE i - 1
    IN  <<2024 + (k + 5) \div 12, ((k + 5) % 12) + 1, 15>>

LongRow(i) ==
    [title |-> <<"b">>, amount |-> IF i % 3 = 0 THEN 3 ELSE 1,
     category |-> IF i % 2 = 0 THEN <<"F">> ELSE <<"T">>, date |-> DateOfRow(i),
     description |-> Some(<<>>), created_at |-> Some(FirstInstant)]

StatTables ==
    UNION { [1..n -> StatRecords] : n \in 0..MaxStatRows }
    \cup { [i \in ids |-> LongRow(i)] :
             ids \in { x \in SUBSET (1..MaxMonths) : Cardinality(x) >= MaxMonths - 3 } }

InitStats ==
    /\ db \in BOOLEAN
    /\ pc = "idle"
    /\ existingData = <<>>
    /\ tableExists = TRUE
    /\ columns = FullSchema
    /\ rows \in StatTables
    /\ seq = MaxRowId(rows)
    /\ backup = FALSE
    /\ clock = LaterInstant
    /\ last = Done("constructor")
    /\ ensured = db
    /\ highWater = seq
    /\ run = NoRun
    /\ settingsJson = None
    /\ user_pin = None
    /\ biometric_enabled = FALSE
    /\ expenses = <<>>
    /\ searchQuery = <<>>
    /\ filteredExpenses = <<>>
    /\ searching = <<>>
    /\ reply = [op |-> "none", status |-> "ok"]
    /\ isAuthenticated = FALSE
    /\ loading = TRUE
    /\ starting = "mounted"
    /\ updating = <<>>

NextStats ==
    /\ \E fault \in BOOLEAN : getExpenseStats(fault)
    /\ UNCHANGED <<settingsVars, appVars, sessionVars>>

SpecStats == InitStats /\ [][NextStats]_vars

RECURSIVE AddUp(_, _)
\* Object.values(categorySums) added up, in the order of the statement's
\* result (ORDER BY total DESC)
AddUp(sums, cats) ==
    IF cats = {} THEN 0
    ELSE LET c == CHOOSE x \in cats : \A y \in cats : sums[y] >= sums[x]
         IN  FloatAdd(AddUp(sums, cats \ {c}), sums[c])

\* C12: getExpenseStats returns totalExpenses equal to the sum of amount over
\* all records (0 when there are none) and categorySums holding, for each
\* category present, the sum of amount of its records; the values of
\* categorySums add up to totalExpenses.
C12_CategorySumsAddUp ==
    (last.op = "getExpenseStats" /\ last.status = "ok") =>
        LET stats == last.ret[1]
            cats == { rows[i].category : i \in DOMAIN rows }
        IN  /\ stats.totalExpenses = SumAmount(rows, DOMAIN rows)
            /\ (rows = NoRows) => stats.totalExpenses = 0
            /\ DOMAIN stats.categorySums = cats
            /\ \A c \in cats :
                  stats.categorySums[c] =
                     SumAmount(rows, { i \in DOMAIN rows : rows[i].category = c })
            /\ AddUp(stats.categorySums, cats) = stats.totalExpenses

\* C13: monthlyData has at most 12 entries, one per distinct month of the
\* records, each with the sum of amount of that month's records, sorted by
\* month descending; with more than 12 distinct months it holds the 12 most
\* recent ones.
C13_MonthlyData ==
    (last.op = "getExpenseStats" /\ last.status = "ok") =>
        LET monthlyData == last.ret[1].monthlyData
            months == { Month(rows[i].date) : i \in DOMAIN rows }
            n == Len(monthlyData)
            listed == { monthlyData[k].month : k \in 1..n }
        IN  /\ n <= 12
            /\ n = IF Cardinality(months) > 12 THEN 12 ELSE Cardinality(months)
            /\ listed \subseteq months
            /\ Cardinality(listed) = n
            /\ \A k \in 1..n :
                  monthlyData[k].total =
                     SumAmount(rows, { i \in DOMAIN rows :
                                         Month(rows[i].date) = monthlyData[k].month })
            /\ \A j \in 1..n, k \in 1..n :
                  j < k => MonthLeq(monthlyData[k].month, monthlyData[j].month)
            /\ \A m \in months \ listed, k \in 1..n : MonthLeq(m, monthlyData[k].month)

\* statistics of a table with more than 12 distinct months
C13_Witness ==
    /\ last.op = "getExpenseStats"
    /\ last.status = "ok"
    /\ Cardinality({ Month(rows[i].date) : i \in DOMAIN rows }) > 12
    /\ Len(last.ret[1].monthlyData) = 12

-----------------------------------------------------------------------------
(* The mediator (AppProvider) and the screens.  A call of the mediator     *)
(* first awaits the store and then refreshes the expense list; screens     *)
(* await a call before they issue the next one.  A message of the storage  *)
(* engine is a sequence of words.                                          *)

NoFault == <<>>

ErrorMessages ==
    { <<"disk", "I/O", "error">>,
      <<"no", "such", "column:", "created_at">>,
      <<"Error:", "no", "such", "column:", "created_at">> }

SchemaShape == <<"no", "such", "column:", "created_at">>

\* message.includes(part)
Includes(message, part) ==
    \E i \in 0..(Len(message) - Len(part)) :
       SubSeq(message, i + 1, i + Len(part)) = part

\* what getAllExpenses throws: `fault` is what the engine raises, if anything
ReadError(fault) ==
    IF ~db THEN <<"Database", "not", "initialized">>
    ELSE IF fault # NoFault THEN fault
    ELSE IF ~tableExists THEN <<"no", "such", "table:", "expenses">>
    ELSE NoFault

RECURSIVE TrimStart(_)
TrimStart(text) ==
    IF text # <<>> /\ Head(text) = " " THEN TrimStart(Tail(text)) ELSE text

RECURSIVE TrimEnd(_)
TrimEnd(text) ==
    IF text # <<>> /\ text[Len(text)] = " "
    THEN TrimEnd(SubSeq(text, 1, Len(text) - 1)) ELSE text

\* searchQuery as it is
TrimNothing(text) == text

\* searchQuery.trim()
Trim(text) == TrimEnd(TrimStart(text))

\* what can be typed into the search box
ScreenQueries == { <<>>, <<" ">>, <<"a">> }

\* AppProvider.searchExpenses(query) on the table rs: the rows the store
\* returns, or [] when the store throws
SearchAnswers(rs, exists, query, fault) ==
    IF ~db \/ fault \/ ~exists THEN { <<>> }
    ELSE ByDate(rs, SearchMatches(rs, query))

\* the effect of ExpensesScreen on [expenses, searchQuery], and handleSearch:
\* `set` tells that one of the two has been set; query, list, rs and exists
\* are the values after the step
useEffect(set, query, list, rs, exists, fault) ==
    IF ~set THEN UNCHANGED <<filteredExpenses, searching>>
    ELSE IF Trim(query) # <<>>
    THEN /\ Len(searching) < MaxSearching
         /\ \E result \in SearchAnswers(rs, exists, query, fault) :
               searching' = Append(searching, [query |-> query, result |-> result])
         /\ UNCHANGED filteredExpenses
    ELSE /\ filteredExpenses' = list
         /\ UNCHANGED searching

\* loadExpenses that resets the database after any read failure
loadExpensesResettingAlways(fault, faultDrop, faultCreate, faultAgain, faultSearch) ==
    LET error == ReadError(fault)
        resets == db /\ error # NoFault
        dropped == resets /\ ~faultDrop
        created == dropped /\ ~faultCreate
        loaded == error = NoFault \/ (created /\ ~faultAgain)
    IN  /\ rows' = IF dropped THEN NoRows ELSE rows
        /\ seq' = IF dropped THEN 0 ELSE seq
        /\ tableExists' = IF dropped THEN created ELSE tableExists
        /\ columns' = IF ~dropped THEN columns
                      ELSE IF created THEN FullSchema ELSE <<>>
        /\ expenses' = IF loaded THEN ByDateThenId(rows', DOMAIN rows') ELSE expenses
        /\ last' = IF loaded
                   THEN Outcome("getAllExpenses", "ok", <<>>, 0, 0, expenses')
                   ELSE IF resets /\ ~created THEN Thrown("resetDatabase")
                   ELSE IF ~db THEN NotInitialized("getAllExpenses")
                   ELSE Thrown("getAllExpenses")
        /\ run' = Overlap(dropped)
        /\ UNCHANGED <<backup, highWater, searchQuery, settingsVars>>
        /\ Frame
        /\ useEffect(loaded, searchQuery, expenses', rows', tableExists', faultSearch)

\* AppProvider.loadExpenses, and the effect of the expenses screen when the
\* list has been set.  fault: what the first getAllExpenses raises; faultDrop,
\* faultCreate: the statements of resetDatabase fail; faultAgain: the second
\* getAllExpenses fails; faultSearch: the search of the effect fails
loadExpenses(fault, faultDrop, faultCreate, faultAgain, faultSearch) ==
    LET error == ReadError(fault)
        resets == error # NoFault /\ Includes(error, SchemaShape)
        dropped == resets /\ ~faultDrop
        created == dropped /\ ~faultCreate
        loaded == error = NoFault \/ (created /\ ~faultAgain)
    IN  /\ rows' = IF dropped THEN NoRows ELSE rows
        /\ seq' = IF dropped THEN 0 ELSE seq
        /\ tableExists' = IF dropped THEN created ELSE tableExists
        /\ columns' = IF ~dropped THEN columns
                      ELSE IF created THEN FullSchema ELSE <<>>
        /\ expenses' = IF loaded THEN ByDateThenId(rows', DOMAIN rows') ELSE expenses
        /\ last' = IF loaded
                   THEN Outcome("getAllExpenses", "ok", <<>>, 0, 0, expenses')
                   ELSE IF resets /\ ~created THEN Thrown("resetDatabase")
                   ELSE IF ~db THEN NotInitialized("getAllExpenses")
                   ELSE Thrown("getAllExpenses")
        /\ run' = Overlap(dropped)
        /\ UNCHANGED <<backup, highWater, searchQuery, settingsVars>>
        /\ Frame
        /\ useEffect(loaded, searchQuery, expenses', rows', tableExists', faultSearch)

\* no call of a screen is waiting for the mediator
Settledown == pc = "idle" /\ reply.status # "pending"

\* the store has answered the call `op` of a screen: the mediator goes on to
\* refresh the list, or rethrows what the store threw
Awaited(op) ==
    /\ reply' = [op |-> op,
                 status |-> IF last'.status = "ok" THEN "pending" ELSE last'.status]
    /\ UNCHANGED <<expenses, searchQuery, filteredExpenses, searching, settingsVars,
                   sessionVars>>

AppProvider_addExpense(expense, fault) ==
    Settledown /\ addExpense(expense, fault) /\ Awaited("addExpense")

AppProvider_updateExpense(id, expense, fault) ==
    Settledown /\ updateExpense(id, expense, fault) /\ Awaited("updateExpense")

\* also ExpensesScreen.handleSwipeDelete, which does not await the call
AppProvider_deleteExpense(id, fault) ==
    Settledown /\ deleteExpense(id, fault) /\ Awaited("deleteExpense")

AppProvider_resetDatabase(fault, faultCreate) ==
    Settledown /\ resetDatabase(fault, faultCreate) /\ Awaited("resetDatabase")

\* await refreshExpenses() at the end of a call of the mediator
Refreshed(fault, faultDrop, faultCreate, faultAgain, faultSearch) ==
    /\ pc = "idle"
    /\ reply.status = "pending"
    /\ loadExpenses(fault, faultDrop, faultCreate, faultAgain, faultSearch)
    /\ reply' = [reply EXCEPT !.status = "ok"]
    /\ UNCHANGED sessionVars

\* ExpensesScreen.handleRefresh
refreshExpenses(fault, faultDrop, faultCreate, faultAgain, faultSearch) ==
    /\ Settledown
    /\ loadExpenses(fault, faultDrop, faultCreate, faultAgain, faultSearch)
    /\ reply' = [op |-> "refreshExpenses", status |-> "ok"]
    /\ UNCHANGED sessionVars

\* StatsScreen.loadStats: the screen calls the store itself
StatsScreen_loadStats(fault) ==
    /\ Settledown
    /\ getExpenseStats(fault)
    /\ reply' = [op |-> "loadStats", status |-> last'.status]
    /\ UNCHANGED <<expenses, searchQuery, filteredExpenses, searching, settingsVars,
                   sessionVars>>

\* the user edits the search box: setSearchQuery(query), then the effect
setSearchQuery(query, fault) ==
    /\ pc = "idle"
    /\ query # searchQuery
    /\ searchQuery' = query
    /\ useEffect(TRUE, query, expenses, rows, tableExists, fault)
    /\ last' = IF Trim(query) = <<>> THEN last
               ELSE IF ~db THEN NotInitialized("searchExpenses")
               ELSE IF fault \/ ~tableExists THEN Thrown("searchExpenses")
               ELSE Outcome("searchExpenses", "ok", <<query>>, 0, 0,
                            searching'[Len(searching')].result)
    /\ run' = Overlap(FALSE)
    /\ UNCHANGED <<disk, highWater, expenses, reply, settingsVars, sessionVars>>
    /\ Frame

\* a search in flight returns: setFilteredExpenses(results)
handleSearch ==
    /\ searching # <<>>
    /\ filteredExpenses' = Head(searching).result
    /\ searching' = Tail(searching)
    /\ UNCHANGED <<db, pc, existingData, disk, clock, last, ensured, highWater, run,
                   expenses, searchQuery, reply, settingsVars, sessionVars>>

\* the first screen is shown: initializeDatabase of a fresh install has
\* returned, or has thrown at openDatabaseAsync or at CREATE TABLE
InitApp ==
    /\ pc = "idle"
    /\ existingData = <<>>
    /\ \/ db = FALSE /\ tableExists = FALSE
       \/ db = TRUE /\ tableExists \in BOOLEAN
    /\ columns = IF tableExists THEN FullSchema ELSE <<>>
    /\ rows = NoRows
    /\ seq = 0
    /\ backup = FALSE
    /\ clock = FirstInstant
    /\ last = IF tableExists THEN Done("initializeDatabase")
              ELSE Thrown("initializeDatabase")
    /\ ensured = TRUE
    /\ highWater = 0
    /\ run = NoRun
    /\ settingsJson = None
    /\ user_pin = None
    /\ biometric_enabled = FALSE
    /\ expenses = <<>>
    /\ searchQuery = <<>>
    /\ filteredExpenses = <<>>
    /\ searching = <<>>
    /\ reply = [op |-> "none", status |-> "ok"]
    /\ isAuthenticated = tableExists
    /\ loading = FALSE
    /\ starting = "finished"
    /\ updating = <<>>

\* faults of the statements that loadExpenses runs only after a read that
\* failed with `fault`
ResetFaults(fault) == IF Includes(fault, SchemaShape) THEN BOOLEAN ELSE {FALSE}

\* a user who leaves the search box empty
NextApp ==
    \/ \E expense \in ExpenseInputs, fault \in BOOLEAN :
          AppProvider_addExpense(expense, fault)
    \/ \E id \in Ids, expense \in ExpenseInputs, fault \in BOOLEAN :
          AppProvider_updateExpense(id, expense, fault)
    \/ \E id \in Ids, fault \in BOOLEAN : AppProvider_deleteExpense(id, fault)
    \/ \E fault \in BOOLEAN, faultCreate \in BOOLEAN :
          AppProvider_resetDatabase(fault, faultCreate)
    \/ \E fault \in {NoFault} \cup ErrorMessages :
       \E faultDrop \in ResetFaults(fault), faultCreate \in ResetFaults(fault),
          faultAgain \in ResetFaults(fault) :
          \/ Refreshed(fault, faultDrop, faultCreate, faultAgain, FALSE)
          \/ refreshExpenses(fault, faultDrop, faultCreate, faultAgain, FALSE)
    \/ \E fault \in BOOLEAN : StatsScreen_loadStats(fault)

SpecApp == InitApp /\ [][NextApp]_vars

\* the expenses the user of the expenses screen adds
ScreenExpenses == { e \in ExpenseInputs : e.description # None }

\* a user of the expenses screen: adds, deletes, refreshes and searches
NextScreen ==
    \/ \E expense \in ScreenExpenses, fault \in BOOLEAN :
          AppProvider_addExpense(expense, fault)
    \/ \E id \in Ids, fault \in BOOLEAN : AppProvider_deleteExpense(id, fault)
    \/ \E fault \in {NoFault} \cup ErrorMessages, faultSearch \in BOOLEAN :
       \E faultDrop \in ResetFaults(fault), faultCreate \in ResetFaults(fault),
          faultAgain \in ResetFaults(fault) :
          \/ Refreshed(fault, faultDrop, faultCreate, faultAgain, faultSearch)
          \/ refreshExpenses(fault, faultDrop, faultCreate, faultAgain, faultSearch)
    \/ \E query \in ScreenQueries, fault \in BOOLEAN : setSearchQuery(query, fault)
    \/ handleSearch

\* the expenses screen after a start-up that has created the table, or that
\* could not open the database
InitScreen == InitApp /\ (db => tableExists)

SpecScreen == InitScreen /\ [][NextScreen]_vars

-----------------------------------------------------------------------------
(* Claims about the mediator and the screens *)

Blank(text) == \A i \in DOMAIN text : text[i] = " "

\* loadExpenses has set the list of the mediator in this step
ListSet ==
    /\ last'.op = "getAllExpenses"
    /\ last'.status = "ok"
    /\ searchQuery' = searchQuery
    /\ Len(searching') >= Len(searching)

\* C11: when the search box is empty or holds only whitespace, the expenses
\* screen shows the expense list of the mediator, in its order, and issues no
\* search: this is what the screen does when the query is set to such a text
\* and when the list is set while the query is such a text.
C11_BlankQueryShowsFullList ==
    [][(Blank(searchQuery') /\ (searchQuery' # searchQuery \/ ListSet)) =>
          /\ filteredExpenses' = expenses'
          /\ searching' = searching
          /\ (searchQuery' # searchQuery) => last' = last]_vars

\* the search box holds a blank and the screen shows a list that is not empty
C11_Witness ==
    /\ searchQuery = <<" ">>
    /\ expenses # <<>>
    /\ filteredExpenses = expenses
    /\ searching = <<>>

\* C17: a failure of the storage engine during add, update, delete, search or
\* stats reaches the screen that made the call: the call does not end
\* normally and no result is made up for it.
C17_FailuresReachTheScreen ==
    [][Served =>
       /\ \A expense \in ExpenseInputs :
             AppProvider_addExpense(expense, TRUE) => reply'.status = "error"
       /\ \A id \in Ids, expense \in ExpenseInputs :
             AppProvider_updateExpense(id, expense, TRUE) => reply'.status = "error"
       /\ \A id \in Ids :
             AppProvider_deleteExpense(id, TRUE) => reply'.status = "error"
       /\ StatsScreen_loadStats(TRUE) => reply'.status = "error"
       /\ \A query \in ScreenQueries :
             (~Blank(query) /\ setSearchQuery(query, TRUE)) =>
                searching' = searching]_vars

\* C18: loadExpenses deletes stored records only after a read that failed
\* with a message naming the missing created_at column; after any other read
\* failure, and after a read that succeeded, the table of the store is what
\* it was.
C18_ResetOnlyOnSchemaError ==
    [][\A fault \in {NoFault} \cup ErrorMessages, faultDrop \in BOOLEAN,
          faultCreate \in BOOLEAN, faultAgain \in BOOLEAN :
          (/\ loadExpenses(fault, faultDrop, faultCreate, faultAgain, FALSE)
           /\ ~Includes(fault, SchemaShape)) =>
             UNCHANGED <<rows, tableExists, columns, seq>>]_vars

\* the refresh that follows an add has read a schema error and has reset the
\* database: the record just added is gone
C18_Witness ==
    /\ reply = [op |-> "addExpense", status |-> "ok"]
    /\ highWater > 0
    /\ rows = NoRows
    /\ seq = 0
    /\ tableExists

-----------------------------------------------------------------------------
(* Claims about clearing *)

\* C21: after clearAllSettings has returned without raising, the settings
\* blob, the PIN and the biometric marker are all absent: getSettings gives
\* the defaults, hasPin gives false and verifyPin gives false for every input.
C21_ClearAllLeavesNothing ==
    [][\A faultRemove \in BOOLEAN, faultPin \in BOOLEAN, faultSecure \in BOOLEAN :
          (/\ clearAllSettings(faultRemove, faultPin, faultSecure)
           /\ last'.status = "ok") =>
             /\ settingsJson' = None
             /\ user_pin' = None
             /\ ~biometric_enabled'
             /\ SettingsOf(settingsJson', FALSE) = defaultSettings
             /\ \A pin \in Pins : user_pin' # Some(pin)]_vars

\* the last call was a clearAllData or a resetDatabase that returned
Cleared(outcome) ==
    /\ outcome.op \in {"clearAllData", "resetDatabase"}
    /\ outcome.status = "ok"

\* C22: after clearAllData or resetDatabase has returned, the store holds no
\* records (getAllExpenses gives the empty list, getExpenseStats a total of 0,
\* getExpenseById finds nothing) and the table is there with its schema, so
\* that the addExpense that follows succeeds and its record is in the list
\* getAllExpenses returns.
C22_ClearedStoreIsEmptyAndUsable ==
    [][/\ Cleared(last') =>
             /\ db' /\ tableExists'
             /\ ByDateThenId(rows', DOMAIN rows') = <<>>
             /\ ExpenseStats(rows').totalExpenses = 0
             /\ \A id \in Ids : ExpenseById(rows', id) = <<>>
             /\ \A name \in {"id", "title", "amount", "category", "date", "description"} :
                   name \in ColumnNames(columns')
       /\ \A expense \in ExpenseInputs :
             (Cleared(last) /\ addExpense(expense, FALSE)) =>
                /\ last'.status = "ok"
                /\ LET got == ByDateThenId(rows', DOMAIN rows')
                   IN  /\ Len(got) = 1
                       /\ got[1].id = last'.id
                       /\ got[1].title = expense.title
                       /\ got[1].amount = expense.amount
                       /\ got[1].category = expense.category
                       /\ got[1].date = expense.date]_vars

\* clearAllData has returned after deleting two stored records
C22_Witness ==
    /\ last.op = "clearAllData"
    /\ last.status = "ok"
    /\ last.changes = 2
    /\ rows = NoRows
    /\ seq = 2

\* C23: updateExpense(id, X) changes the record of that id and no other: every
\* other record is what it was and no record is created or removed; when no
\* record has that id the call returns without error and the store is what it
\* was.
C23_UpdateTouchesOneRecord ==
    [][\A id \in Ids, expense \in ExpenseInputs :
          (Served /\ updateExpense(id, expense, FALSE)) =>
             /\ DOMAIN rows' = DOMAIN rows
             /\ \A other \in DOMAIN rows \ {id} : rows'[other] = rows[other]
             /\ UNCHANGED <<tableExists, columns, seq, backup>>
             /\ id \notin DOMAIN rows =>
                   /\ last'.status = "ok"
                   /\ last'.changes = 0
                   /\ rows' = rows]_vars

\* an update of the older of two records has changed it and has left the
\* newer one as it was
C23_Witness ==
    /\ last.op = "updateExpense"
    /\ last.status = "ok"
    /\ last.id = 1
    /\ DOMAIN rows = {1, 2}
    /\ SameInput(rows[1], last.arg[1])
    /\ ~SameInput(rows[2], last.arg[1])

-----------------------------------------------------------------------------
(* The PIN and its flag, when AsyncStorage and SecureStore never fail *)

\* the calls of SettingsService, each awaited, none of them failing
NextPin ==
    \/ getSettings(FALSE)
    \/ \E newSettings \in SettingsUpdates : updateSettings(newSettings, FALSE, FALSE)
    \/ \E enabled \in BOOLEAN : setBiometricEnabled(enabled, FALSE, FALSE, FALSE)
    \/ \E enabled \in BOOLEAN : setPinEnabled(enabled, FALSE, FALSE, FALSE)
    \/ \E pin \in Pins : setPin(pin, FALSE, FALSE, FALSE)
    \/ \E pin \in Pins : verifyPin(pin, FALSE)
    \/ hasPin(FALSE)
    \/ clearAllSettings(FALSE, FALSE, FALSE)

SpecPin == InitSettings /\ [][NextPin]_vars

\* C29: when no storage call fails, after any sequence of setPin,
\* setPinEnabled and clearAllSettings calls a stored PIN implies pinEnabled =
\* true; setPin leaves its PIN stored with pinEnabled = true, and
\* setPinEnabled(false) leaves pinEnabled = false and no PIN stored.
C29_StoredPinImpliesPinEnabled ==
    [][/\ user_pin' # None => SettingsOf(settingsJson', FALSE).pinEnabled
       /\ \A pin \in Pins :
             setPin(pin, FALSE, FALSE, FALSE) =>
                /\ user_pin' = Some(pin)
                /\ SettingsOf(settingsJson', FALSE).pinEnabled
       /\ setPinEnabled(FALSE, FALSE, FALSE, FALSE) =>
             /\ user_pin' = None
             /\ ~SettingsOf(settingsJson', FALSE).pinEnabled]_vars

\* a PIN is stored and a later call other than setPin has returned
C29_Witness ==
    /\ user_pin = Some("0000")
    /\ last.op \in {"setPinEnabled", "setBiometricEnabled", "updateSettings"}
    /\ last.status = "ok"
    /\ SettingsOf(settingsJson, FALSE).pinEnabled

-----------------------------------------------------------------------------
(* The add and edit forms *)

\* decimal places of the amounts that can be typed; an amount is kept as a
\* whole number of units of 10^-FractionDigits
FractionDigits == 2

RECURSIVE Power10(_)
Power10(n) == IF n = 0 THEN 1 ELSE 10 * Power10(n - 1)

DecimalDigits == <<"0", "1", "2", "3", "4", "5", "6", "7", "8", "9">>

IsDigit(c) == \E i \in DOMAIN DecimalDigits : DecimalDigits[i] = c

DigitValue(c) == (CHOOSE i \in DOMAIN DecimalDigits : DecimalDigits[i] = c) - 1

RECURSIVE LeadingDigits(_)
\* the longest prefix of text made of digits
LeadingDigits(text) ==
    IF text # <<>> /\ IsDigit(Head(text))
    THEN <<Head(text)>> \o LeadingDigits(Tail(text))
    ELSE <<>>

RECURSIVE WholeNumber(_, _)
\* the value of a sequence of digits read after the value `n`
WholeNumber(digits, n) ==
    IF digits = <<>> THEN n
    ELSE WholeNumber(Tail(digits), 10 * n + DigitValue(Head(digits)))

\* the value of the fraction digits, in units of 10^-FractionDigits
Fraction(digits) ==
    LET kept == SubSeq(digits, 1, IF Len(digits) < FractionDigits THEN Len(digits)
                                  ELSE FractionDigits)
    IN  WholeNumber(kept, 0) * Power10(FractionDigits - Len(kept))

\* parseFloat(text): leading white space is skipped, then the longest prefix
\* of the form [+-] digits [. digits] is read and what follows is ignored;
\* None is NaN
parseFloat(text) ==
    LET t == TrimStart(text)
        signed == t # <<>> /\ Head(t) \in {"-", "+"}
        sign == IF signed /\ Head(t) = "-" THEN -1 ELSE 1
        u == IF signed THEN Tail(t) ELSE t
        whole == LeadingDigits(u)
        rest == SubSeq(u, Len(whole) + 1, Len(u))
        decimals == IF rest # <<>> /\ Head(rest) = "." THEN LeadingDigits(Tail(rest))
                    ELSE <<>>
    IN  IF whole = <<>> /\ decimals = <<>> THEN None
        ELSE Some(sign * (WholeNumber(whole, 0) * Power10(FractionDigits)
                          + Fraction(decimals)))

\* what can be typed into the fields of the two forms
TitleTexts == { <<>>, <<" ">>, <<" ", "b">> }

AmountTexts ==
    { <<>>, <<" ">>, <<"a">>, <<"5">>, <<"-", "5">>, <<".", "5">>, <<"5", "a">>,
      <<" ", "5">>, <<"0", ".", "0">> }

CategoryTexts == { <<>>, <<"F">> }

DescriptionTexts == { <<"a", " ">> }

\* the UTC day of the date picked: the days of the clock, and a later one
FormDates == Dates \cup { <<2025, 8, 20>> }

\* the UTC day of new Date()
Today == IF clock = FirstInstant THEN <<2025, 8, 18>> ELSE <<2025, 8, 19>>

\* validateForm that accepts every amount that is a number
validateFormAnyNumber(title, amount, category, date) ==
    /\ Trim(title) # <<>>
    /\ Trim(amount) # <<>> /\ parseFloat(amount) # None
    /\ category # <<>>
    /\ DateLeq(date, Today)

\* validateForm of AddExpenseScreen and of EditExpenseScreen: no error is set
validateForm(title, amount, category, date) ==
    /\ Trim(title) # <<>>
    /\ ~(Trim(amount) = <<>> \/ parseFloat(amount) = None \/ parseFloat(amount)[1] <= 0)
    /\ category # <<>>
    /\ DateLeq(date, Today)

\* the object handleSave and handleSubmit pass to the mediator
FormExpense(title, amount, category, date, description) ==
    [title |-> Trim(title), amount |-> parseFloat(amount)[1], category |-> category,
     date |-> date, description |-> Some(Trim(description))]

\* validateForm has set errors: the handler returns
Rejected(op) ==
    /\ Settledown
    /\ reply' = [op |-> op, status |-> "invalid"]
    /\ UNCHANGED <<db, pc, existingData, disk, clock, last, ensured, highWater, run,
                   expenses, searchQuery, filteredExpenses, searching, settingsVars,
                   sessionVars>>

AddExpenseScreen_handleSave(title, amount, category, date, description, fault) ==
    IF validateForm(title, amount, category, date)
    THEN AppProvider_addExpense(FormExpense(title, amount, category, date, description),
                                fault)
    ELSE Rejected("handleSave")

\* the screen edits a record of the list: route.params.expense
EditExpenseScreen_handleSubmit(id, title, amount, category, date, description, fault) ==
    /\ \E i \in 1..Len(expenses) : expenses[i].id = id
    /\ IF validateForm(title, amount, category, date)
       THEN AppProvider_updateExpense(
               id, FormExpense(title, amount, category, date, description), fault)
       ELSE Rejected("handleSubmit")

\* a user of the add and edit screens
NextForm ==
    \/ \E title \in TitleTexts, amount \in AmountTexts, category \in CategoryTexts,
          date \in FormDates, description \in DescriptionTexts, fault \in BOOLEAN :
          AddExpenseScreen_handleSave(title, amount, category, date, description, fault)
    \/ \E id \in Ids, title \in TitleTexts, amount \in AmountTexts,
          category \in CategoryTexts, date \in FormDates,
          description \in DescriptionTexts, fault \in BOOLEAN :
          EditExpenseScreen_handleSubmit(id, title, amount, category, date,
                                         description, fault)
    \/ Refreshed(NoFault, FALSE, FALSE, FALSE, FALSE)
    \/ Tick /\ UNCHANGED <<settingsVars, appVars, sessionVars>>

SpecForm == InitApp /\ [][NextForm]_vars

\* C24: after any sequence of adds and updates made through the add and edit
\* screens, every record of the store has a title that is not empty and an
\* amount greater than zero.
C24_StoredRecordsAreValid ==
    \A id \in DOMAIN rows :
       /\ rows[id].title # <<>>
       /\ rows[id].amount > 0

\* a record saved from the text ".5" stands next to one that the edit screen
\* has rewritten
C24_Witness ==
    /\ DOMAIN rows = {1, 2}
    /\ rows[2].amount = parseFloat(<<".", "5">>)[1]
    /\ reply = [op |-> "updateExpense", status |-> "ok"]
    /\ last.ret # <<>>

-----------------------------------------------------------------------------
(* Searches in flight, when the store never fails *)

\* what can be typed into the search box: nothing, a text that the second
\* input of ExpenseInputs matches and one it does not
SearchTexts == { <<>>, <<"a">>, <<"f">> }

\* a user who adds records and types into the search box while earlier
\* searches are still in flight
NextSearch ==
    \/ \E expense \in ExpenseInputs : AppProvider_addExpense(expense, FALSE)
    \/ Refreshed(NoFault, FALSE, FALSE, FALSE, FALSE)
    \/ \E query \in SearchTexts : setSearchQuery(query, FALSE)
    \/ handleSearch

SpecSearch == InitApp /\ [][NextSearch]_vars

\* C27: once every search in flight has returned and no call of the mediator
\* is waiting, the list the expenses
\* screen displays is the result for the current query, or the full list when
\* the query is empty; the result of an earlier query never replaces what a
\* later query displays.
C27_DisplayedListIsForCurrentQuery ==
    [][(handleSearch /\ searching' = <<>> /\ Settledown) =>
          IF Trim(searchQuery') = <<>>
          THEN filteredExpenses' = expenses'
          ELSE /\ Head(searching).query = searchQuery'
               /\ filteredExpenses' \in
                     SearchAnswers(rows', tableExists', searchQuery', FALSE)]_vars

-----------------------------------------------------------------------------
(* Start-up of the mediator: initializeApp, one step per await *)

\* the settings blob the process finds: none, one with a lock enabled, one
\* without
StartupBlobs ==
    { None, Some([pinEnabled |-> TRUE]), Some([biometricEnabled |-> TRUE]),
      Some([theme |-> "dark"]) }

\* the state after construction of the provider: loading = true,
\* isAuthenticated = false, and the stores as the process finds them
InitStartup ==
    /\ db = FALSE
    /\ pc = "idle"
    /\ existingData = <<>>
    /\ \/ /\ tableExists = FALSE
          /\ columns = <<>>
          /\ rows = NoRows
          /\ seq = 0
       \/ /\ tableExists = TRUE
          /\ columns = LegacySchema
          /\ rows \in LegacyTables
          /\ seq \in MaxRowId(rows)..MaxId
    /\ backup = FALSE
    /\ clock = FirstInstant
    /\ last = Done("constructor")
    /\ ensured = FALSE
    /\ highWater = seq
    /\ run = NoRun
    /\ settingsJson \in StartupBlobs
    /\ user_pin = None
    /\ biometric_enabled = FALSE
    /\ expenses = <<>>
    /\ searchQuery = <<>>
    /\ filteredExpenses = <<>>
    /\ searching = <<>>
    /\ reply = [op |-> "none", status |-> "ok"]
    /\ isAuthenticated = FALSE
    /\ loading = TRUE
    /\ starting = "mounted"
    /\ updating = <<>>

\* the effect of the provider calls initializeApp: setLoading(true), and
\* initializeDatabase runs up to its first await
initializeApp(fault) ==
    /\ starting = "mounted"
    /\ OpenDatabase(fault)
    /\ loading' = TRUE
    /\ starting' = "initializeDatabase"
    /\ UNCHANGED <<isAuthenticated, updating, settingsVars, appVars>>

\* the statements of initializeDatabase that follow
AwaitInitializeDatabase(fault) ==
    /\ starting = "initializeDatabase"
    /\ pc # "idle"
    /\ \/ CreateIfNotExists(fault)
       \/ ensureCreatedAtColumn(fault)
       \/ recreateTableWithCreatedAt(fault)
    /\ UNCHANGED <<settingsVars, appVars, sessionVars>>

\* initializeDatabase has returned: getSettings, setSettings and the branch
\* on the lock.  faultRead: AsyncStorage.getItem fails inside getSettings
SettingsLoaded(faultRead) ==
    /\ starting = "initializeDatabase"
    /\ pc = "idle"
    /\ last.status = "ok"
    /\ LET appSettings == SettingsOf(settingsJson, faultRead)
       IN  IF appSettings.pinEnabled \/ appSettings.biometricEnabled
           THEN isAuthenticated' = FALSE /\ starting' = "finally"
           ELSE isAuthenticated' = TRUE /\ starting' = "loadExpenses"
    /\ UNCHANGED <<db, pc, existingData, disk, clock, last, ensured, highWater, run,
                   settingsVars, appVars, loading, updating>>

\* initializeDatabase has thrown and the catch block has not reached finally
InitializeFailedForGood ==
    /\ starting = "initializeDatabase"
    /\ pc = "idle"
    /\ last.status # "ok"
    /\ starting' = "finished"
    /\ UNCHANGED <<db, pc, existingData, disk, clock, last, ensured, highWater, run,
                   settingsVars, appVars, isAuthenticated, loading, updating>>

\* initializeDatabase has thrown: the catch block logs
InitializeFailed ==
    /\ starting = "initializeDatabase"
    /\ pc = "idle"
    /\ last.status # "ok"
    /\ starting' = "finally"
    /\ UNCHANGED <<db, pc, existingData, disk, clock, last, ensured, highWater, run,
                   settingsVars, appVars, isAuthenticated, loading, updating>>

\* await loadExpenses(), which catches what its reads throw
ExpensesLoaded(fault, faultDrop, faultCreate, faultAgain) ==
    /\ starting = "loadExpenses"
    /\ loadExpenses(fault, faultDrop, faultCreate, faultAgain, FALSE)
    /\ starting' = "finally"
    /\ UNCHANGED <<reply, isAuthenticated, loading, updating>>

\* finally { setLoading(false) }
Finally ==
    /\ starting = "finally"
    /\ loading' = FALSE
    /\ starting' = "finished"
    /\ UNCHANGED <<db, pc, existingData, disk, clock, last, ensured, highWater, run,
                   settingsVars, appVars, isAuthenticated, updating>>

NextStartup ==
    \/ \E fault \in BOOLEAN : initializeApp(fault)
    \/ \E fault \in BOOLEAN : AwaitInitializeDatabase(fault)
    \/ \E faultRead \in BOOLEAN : SettingsLoaded(faultRead)
    \/ InitializeFailed
    \/ \E fault \in {NoFault} \cup ErrorMessages :
       \E faultDrop \in ResetFaults(fault), faultCreate \in ResetFaults(fault),
          faultAgain \in ResetFaults(fault) :
          ExpensesLoaded(fault, faultDrop, faultCreate, faultAgain)
    \/ Finally

\* every storage call returns or raises: a step of initializeApp that can be
\* taken is taken
SpecStartup == InitStartup /\ [][NextStartup]_vars /\ WF_vars(NextStartup)

\* C30: start-up always finishes: once initializeApp has started, loading
\* becomes false, whether initializeDatabase, the settings read or the expense
\* read succeeds or fails; and the expense read of start-up is issued only
\* after initializeDatabase has returned.
C30_StartupFinishes ==
    /\ (starting = "initializeDatabase") ~> ~loading
    /\ [](last.op \in {"getAllExpenses", "resetDatabase"} => (ensured /\ pc = "idle"))

\* the expense read of start-up has failed and loading is false
C30_Witness ==
    /\ starting = "finished"
    /\ ~loading
    /\ isAuthenticated
    /\ last = Thrown("getAllExpenses")

-----------------------------------------------------------------------------
(* The session: the lock of the mediator and the screens that write, when *)
(* the store never fails                                                  *)

\* the settings of a start-up ask for the lock
Locked(json) ==
    SettingsOf(json, FALSE).pinEnabled \/ SettingsOf(json, FALSE).biometricEnabled

\* initializeApp has finished on a fresh install: the table is there and
\* empty; behind a lock the list has not been loaded
InitSession ==
    /\ db = TRUE
    /\ pc = "idle"
    /\ existingData = <<>>
    /\ tableExists = TRUE
    /\ columns = FullSchema
    /\ rows = NoRows
    /\ seq = 0
    /\ backup = FALSE
    /\ clock = FirstInstant
    /\ settingsJson \in StartupBlobs
    /\ last = IF Locked(settingsJson) THEN Done("initializeDatabase")
              ELSE Outcome("getAllExpenses", "ok", <<>>, 0, 0, <<>>)
    /\ ensured = TRUE
    /\ highWater = 0
    /\ run = NoRun
    /\ user_pin = IF SettingsOf(settingsJson, FALSE).pinEnabled THEN Some("1234")
                  ELSE None
    /\ biometric_enabled = SettingsOf(settingsJson, FALSE).biometricEnabled
    /\ expenses = <<>>
    /\ searchQuery = <<>>
    /\ filteredExpenses = <<>>
    /\ searching = <<>>
    /\ reply = [op |-> "none", status |-> "ok"]
    /\ isAuthenticated = ~Locked(settingsJson)
    /\ loading = FALSE
    /\ starting = "finished"
    /\ updating = <<>>

\* setIsAuthenticated(true); await loadExpenses() follows as Refreshed
authenticate ==
    /\ Settledown
    /\ isAuthenticated' = TRUE
    /\ reply' = [op |-> "authenticate", status |-> "pending"]
    /\ UNCHANGED <<db, pc, existingData, disk, clock, last, ensured, highWater, run,
                   expenses, searchQuery, filteredExpenses, searching, settingsVars,
                   loading, starting, updating>>

\* setIsAuthenticated(false); setExpenses([]), and the effect of the expenses
\* screen on the new list
logout ==
    /\ pc = "idle"
    /\ isAuthenticated' = FALSE
    /\ expenses' = <<>>
    /\ useEffect(TRUE, searchQuery, expenses', rows, tableExists, FALSE)
    /\ UNCHANGED <<db, pc, existingData, disk, clock, last, ensured, highWater, run,
                   searchQuery, reply, settingsVars, loading, starting, updating>>

\* SettingsScreen.confirmClearData: the screen calls the store itself and
\* shows an alert
SettingsScreen_confirmClearData(fault) ==
    /\ Settledown
    /\ clearAllData(fault)
    /\ reply' = [op |-> "clearAllData", status |-> last'.status]
    /\ UNCHANGED <<expenses, searchQuery, filteredExpenses, searching, settingsVars,
                   sessionVars>>

\* a user of the screens, the search box left empty
NextSession ==
    \/ \E expense \in ExpenseInputs : AppProvider_addExpense(expense, FALSE)
    \/ \E id \in Ids, expense \in ExpenseInputs :
          AppProvider_updateExpense(id, expense, FALSE)
    \/ \E id \in Ids : AppProvider_deleteExpense(id, FALSE)
    \/ AppProvider_resetDatabase(FALSE, FALSE)
    \/ Refreshed(NoFault, FALSE, FALSE, FALSE, FALSE)
    \/ refreshExpenses(NoFault, FALSE, FALSE, FALSE, FALSE)
    \/ SettingsScreen_confirmClearData(FALSE)
    \/ authenticate
    \/ logout

SpecSession == InitSession /\ [][NextSession]_vars

\* C25: whenever the mediator is authenticated and no call is in flight, its
\* expense list is what getAllExpenses of the store returns; so after every
\* add, update, delete, reset and clear-all that a screen has completed.
C25_ListMirrorsStore ==
    (isAuthenticated /\ Settledown) => expenses = ByDateThenId(rows, DOMAIN rows)

\* C28: while the mediator is not authenticated its expense list is empty, in
\* every state, also when an add, update, delete or refresh is issued or
\* completes meanwhile.
C28_NoListWhileLocked ==
    ~isAuthenticated => expenses = <<>>

-----------------------------------------------------------------------------
(* updateSettings calls that overlap, when AsyncStorage never fails *)

\* updateSettings calls that may be in flight together
MaxUpdating == 2

\* a call is made: getSettings is issued.  When the calls before it have all
\* persisted, they are forgotten; otherwise this call overlaps them
updateSettings_called(newSettings) ==
    LET call == [newSettings |-> newSettings, currentSettings |-> None,
                 persisted |-> FALSE]
    IN  /\ IF \A i \in DOMAIN updating : updating[i].persisted
           THEN updating' = <<call>>
           ELSE /\ Len(updating) < MaxUpdating
                /\ updating' = Append(updating, call)
        /\ last' = Outcome("updateSettings", "pending", <<newSettings>>, 0, 0, <<>>)
        /\ StoreFrame
        /\ UNCHANGED <<settingsVars, appVars, isAuthenticated, loading, starting>>

\* const currentSettings = await this.getSettings() of call i
updateSettings_getSettings(i) ==
    /\ updating[i].currentSettings = None
    /\ updating' = [updating EXCEPT ![i].currentSettings =
                                       Some(SettingsOf(settingsJson, FALSE))]
    /\ StoreFrame
    /\ UNCHANGED <<last, settingsVars, appVars, isAuthenticated, loading, starting>>

\* await AsyncStorage.setItem(SETTINGS_KEY, JSON.stringify(updatedSettings))
\* of call i
updateSettings_setItem(i) ==
    /\ updating[i].currentSettings # None
    /\ ~updating[i].persisted
    /\ settingsJson' = Some(Spread(updating[i].currentSettings[1],
                                   updating[i].newSettings))
    /\ updating' = [updating EXCEPT ![i].persisted = TRUE]
    /\ last' = Outcome("updateSettings", "ok", <<updating[i].newSettings>>, 0, 0, <<>>)
    /\ StoreFrame
    /\ UNCHANGED <<user_pin, biometric_enabled, appVars, isAuthenticated, loading,
                   starting>>

NextUpdating ==
    \/ \E newSettings \in SettingsUpdates : updateSettings_called(newSettings)
    \/ \E i \in DOMAIN updating : updateSettings_getSettings(i)
    \/ \E i \in DOMAIN updating : updateSettings_setItem(i)

SpecUpdating == InitSettings /\ [][NextUpdating]_vars

\* C26: when two updateSettings calls that name disjoint fields overlap, the
\* second made before the first has persisted, then once both have completed
\* the persisted settings hold the new values of both calls.
C26_NoLostUpdate ==
    \A i \in DOMAIN updating, j \in DOMAIN updating :
       (/\ i < j
        /\ updating[i].persisted /\ updating[j].persisted
        /\ DOMAIN updating[i].newSettings \cap DOMAIN updating[j].newSettings = {}) =>
          /\ \A field \in DOMAIN updating[i].newSettings :
                SettingsOf(settingsJson, FALSE)[field] = updating[i].newSettings[field]
          /\ \A field \in DOMAIN updating[j].newSettings :
                SettingsOf(settingsJson, FALSE)[field] = updating[j].newSettings[field]

====
